---- MODULE Spec2Model ----
(***************************************************************************)
(* Model of the stage-based announcement scheduler (src/src/stage.py), of  *)
(* the audio pre-rendering pipeline (src/src/audio_generator.py), of the   *)
(* time parsing and formatting functions (src/src/time_utils.py), of the   *)
(* legacy interval generator (src/src/announcements.py) and of the ways a  *)
(* StageConfig is built (src/src/ui.py, src/src/config_manager.py).        *)
(*                                                                         *)
(* Texts are sequences of one-character strings, so that str() and the     *)
(* phrase building of format_announcement act on characters as they do in  *)
(* the source.                                                             *)
(* Audio time is counted in ticks of half a second: the error placeholder  *)
(* of _generate_speech_audio (0.5 s) is one tick, a second is two ticks.   *)
(***************************************************************************)
EXTENDS Integers, Sequences, FiniteSets, TLC

\* ------------------------------------------------------------------ bounds
MaxThreshold == 4
MaxInterval == 3
MaxTotal == 6
MaxTotalDefault == 130
MaxRenderTotal == 2
MaxRemaining == 2
MaxAnnouncements == 2
MaxTimeLen == 3
MaxFormatSeconds == 125
MaxNumber == 3
MaxLegacyTotal == 100
MaxLoopSteps == 12
MaxLoadedStages == 2
MaxFiles == 3
MaxCleanups == 3
MaxFullSeconds == 2
MaxTimerSeconds == 1
MaxOffset == 2
MaxLate == 1
MaxPollTotal == 3
MaxSpeakTenths == 3

VARIABLES
    stages,            \* StageConfig.stages
    pc,                \* "idle" before the first call, "returned" after a call
    total_seconds,     \* argument of the latest generate_announcements call
    announcements,     \* its local list, as returned
    processed_times,   \* its local set, as left at the return
    first_call,        \* the first call made on this config: <<total, list>>
    interleaved,       \* a call with another total was made after the first
    r_pc,              \* generate_timer_audio: "idle", "loop", "done"
    r_total,           \* its argument total_seconds
    r_announcements,   \* its argument announcements
    include_finished,  \* its argument include_finished
    sorted_announcements,
    idx,               \* number of entries of sorted_announcements handled
    current_position,  \* in ticks
    audio_data,        \* the segments appended so far, in order
    tts_errors,        \* number of "Error generating speech" lines printed
    tts_calls,         \* the _generate_speech_audio calls so far:
                       \* [text, rate, path]
    temp_files,        \* AudioGenerator._temp_files
    fs,                \* the temporary files that exist
    next_path,         \* the path the next mkstemp returns
    remove_failed,     \* the files os.remove raised for in the latest cleanup
    cleanup_calls,     \* number of cleanup() calls made
    call,              \* the latest call of a time/text function: [fn, arg]
    ret,               \* what that call returned or raised
    l_pc,              \* generate_announcement_intervals: "idle", "loop",
                       \* "returned", "raised"
    l_total,           \* its argument total_seconds
    multiplier,        \* its argument multiplier, in halves (3 is 1.5)
    shortest_seconds,
    intervals,
    l_current,         \* its local current
    l_result,          \* the list it returned
    built_by,          \* the constructor that built stages, "none" before
    built_input,       \* the stage list that constructor passed to __init__
    c_pc,              \* the save/load round trip of the StageConfig: "built",
                       \* "saved", "reloaded", "resaved"
    saved,             \* to_dict() of stages
    reloaded,          \* the stages of from_dict(saved)
    resaved,           \* to_dict() of reloaded
    f_pc,              \* generate_full_audio: "idle", "prep", "main", "done",
                       \* "raised"
    prep_seconds,
    main_seconds,
    prep_announcements,
    main_announcements,
    prep_audio,
    full_audio,
    output_path,
    settings_file,     \* the content of settings.json: [kind, obj]
    s_pc,              \* load_settings: "idle", "returned", "raised"
    s_ret,             \* the dictionary load_settings returned
    s_exc,             \* the exception it raised, "none" if none
    now,               \* time.time(), in tenths of a second
    t_pc,              \* TimerWindow: "idle" before start_timer, "waiting" for
                       \* the audio offset, "running", "finished"
    audio_offset,      \* AudioTimer.audio_offset, in tenths of a second
    timer_running,
    start_time,        \* in tenths; -1 is None
    in_prep_phase,
    label,             \* the remaining time last put on the label, in
                       \* tenths; -1 before the first
    label_at,          \* when it was put there
    visual_start,      \* when _start_visual_timer ran; -1 before
    due,               \* when the pending root.after callback is due; -1 if
                       \* none is pending
    switches,          \* number of prep-to-main transitions made
    complete_calls,    \* number of on_complete calls made
    late,              \* tenths that passed while a callback or a step of
                       \* the playback thread was overdue
    player_pc,         \* AudioPlayer._play_worker: "idle", "started",
                       \* "playing", "done"
    playing,           \* AudioPlayer._playing
    play_end,          \* when the playing track ends; -1 if none plays
    p_pc,              \* a polling timer(): "idle", "loop", "done"
    p_variant,         \* "package" (src/src/__main__.py) or "script"
                       \* (src/timer.py)
    p_total,           \* its total_seconds
    p_thresholds,      \* announcement_intervals, or the keys of
                       \* parsed_announcements, in iteration order
    p_offset,          \* offset, in tenths of a second (0 in the script)
    p_shortest,        \* shortest_seconds (package)
    announced,         \* the dictionary of flags
    short_timer_announced,
    final_countdown_from,
    final_countdown_started,
    last_beep_number,  \* -1 is None
    p_elapsed,         \* time.time() - start_time, in tenths of a second
    p_spoken,          \* what was spoken or beeped, in order: [kind, seconds,
                       \* remaining]
    w_pc,              \* generate_announcements run step by step: "idle",
                       \* "walk", "returned"
    w_total,           \* its argument total_seconds
    w_stage,           \* position in self.stages of the stage of the for loop
    w_current,         \* its locals current and end
    w_end,
    w_announcements,   \* its local announcements
    w_processed_times, \* its local processed_times
    w_iterations       \* iterations of the while loop made for this stage

schedVars == <<stages, pc, total_seconds, announcements, processed_times,
               first_call, interleaved>>

renderVars == <<r_pc, r_total, r_announcements, include_finished,
                sorted_announcements, idx, current_position, audio_data, tts_errors,
                tts_calls, temp_files, fs, next_path>>

cleanupVars == <<remove_failed, cleanup_calls>>

textVars == <<call, ret>>

legacyVars == <<l_pc, l_total, multiplier, shortest_seconds, intervals,
                l_current, l_result>>

configVars == <<built_by, built_input, c_pc, saved, reloaded, resaved>>

fullVars == <<f_pc, prep_seconds, main_seconds, prep_announcements,
              main_announcements, prep_audio, full_audio, output_path>>

\* the variables of the settings file, the visual countdown, the polling
\* loops and the stepwise stage walk
settingsVars == <<settings_file, s_pc, s_ret, s_exc>>

timerVars == <<now, t_pc, audio_offset, timer_running, start_time,
               in_prep_phase, label, label_at, visual_start, due, switches,
               complete_calls, late>>

playerVars == <<player_pc, playing, play_end>>

pollVars == <<p_pc, p_variant, p_total, p_thresholds, p_offset, p_shortest,
              announced, short_timer_announced, final_countdown_from,
              final_countdown_started, last_beep_number, p_elapsed, p_spoken>>

walkVars == <<w_pc, w_total, w_stage, w_current, w_end, w_announcements,
              w_processed_times, w_iterations>>

extraVars == <<settingsVars, timerVars, playerVars, pollVars, walkVars>>

auxVars == <<textVars, legacyVars, configVars, cleanupVars, fullVars, extraVars>>

vars == <<schedVars, renderVars, auxVars>>

\* ------------------------------------------------------------ text helpers
DigitChars == <<"0", "1", "2", "3", "4", "5", "6", "7", "8", "9">>

RECURSIVE Str(_)
Str(n) ==
    IF n < 10 THEN <<DigitChars[n + 1]>>
    ELSE Str(n \div 10) \o <<DigitChars[(n % 10) + 1]>>

DigitSet == {DigitChars[i] : i \in DOMAIN DigitChars}
DigitValue(c) == CHOOSE d \in 0..9 : DigitChars[d + 1] = c

\* str.isdigit(): non-empty and every character a digit
isdigit(s) == s # <<>> /\ \A i \in DOMAIN s : s[i] \in DigitSet

RECURSIVE IntOfDigits(_)
IntOfDigits(s) ==
    IF s = <<>> THEN 0
    ELSE 10 * IntOfDigits(SubSeq(s, 1, Len(s) - 1)) + DigitValue(s[Len(s)])

\* str(n) of an integer of either sign
PyStr(n) == IF n < 0 THEN <<"-">> \o Str(-n) ELSE Str(n)

\* s.replace(" ", "")
RemoveSpaces(s) == SelectSeq(s, LAMBDA c : c # " ")

SP == <<" ">>
W_minute == <<"m", "i", "n", "u", "t", "e">>
W_minutes == W_minute \o <<"s">>
W_second == <<"s", "e", "c", "o", "n", "d">>
W_seconds == W_second \o <<"s">>
W_remaining == <<"r", "e", "m", "a", "i", "n", "i", "n", "g">>

\* ------------------------------------------------------------------- Stage
Stage(name, duration_threshold, announcement_interval, verbosity) ==
    [name |-> name,
     duration_threshold |-> duration_threshold,
     announcement_interval |-> announcement_interval,
     verbosity |-> verbosity]

\* format_announcement with the plural form in every phrase
format_announcement_plural(self, remaining_seconds) ==
    IF self.verbosity = "low" THEN Str(remaining_seconds)
    ELSE IF remaining_seconds >= 60 THEN
        LET minutes == remaining_seconds \div 60
            leftover == remaining_seconds % 60
        IN  IF leftover = 0
            THEN Str(minutes) \o SP \o W_minutes \o SP \o W_remaining
            ELSE Str(minutes) \o SP \o W_minutes \o SP \o Str(leftover)
                     \o SP \o W_seconds \o SP \o W_remaining
    ELSE Str(remaining_seconds) \o SP \o W_seconds \o SP \o W_remaining

\* format_announcement that keeps the seconds clause when no second is left
format_announcement_zero_clause(self, remaining_seconds) ==
    IF self.verbosity = "low" THEN Str(remaining_seconds)
    ELSE IF remaining_seconds >= 60 THEN
        LET minutes == remaining_seconds \div 60
            leftover == remaining_seconds % 60
            minute_word == IF minutes = 1 THEN W_minute ELSE W_minutes
            second_word == IF leftover = 1 THEN W_second ELSE W_seconds
        IN  Str(minutes) \o SP \o minute_word \o SP \o Str(leftover)
                \o SP \o second_word \o SP \o W_remaining
    ELSE
        LET second_word == IF remaining_seconds = 1 THEN W_second ELSE W_seconds
        IN  Str(remaining_seconds) \o SP \o second_word \o SP \o W_remaining

format_announcement(self, remaining_seconds) ==
    IF self.verbosity = "low" THEN Str(remaining_seconds)
    ELSE IF remaining_seconds >= 60 THEN
        LET minutes == remaining_seconds \div 60
            leftover == remaining_seconds % 60
            minute_word == IF minutes = 1 THEN W_minute ELSE W_minutes
            second_word == IF leftover = 1 THEN W_second ELSE W_seconds
        IN  IF leftover = 0
            THEN Str(minutes) \o SP \o minute_word \o SP \o W_remaining
            ELSE Str(minutes) \o SP \o minute_word \o SP \o Str(leftover)
                     \o SP \o second_word \o SP \o W_remaining
    ELSE
        LET second_word == IF remaining_seconds = 1 THEN W_second ELSE W_seconds
        IN  Str(remaining_seconds) \o SP \o second_word \o SP \o W_remaining

\* ------------------------------------------------------------- StageConfig
\* sorted(seq, key=..., reverse=True): stable, larger keys first.
\* The items travel as pairs <<key, item>>.
RECURSIVE InsertDesc(_, _)
InsertDesc(sorted, x) ==
    IF sorted = <<>> THEN <<x>>
    ELSE IF sorted[Len(sorted)][1] >= x[1] THEN Append(sorted, x)
    ELSE Append(InsertDesc(SubSeq(sorted, 1, Len(sorted) - 1), x),
                sorted[Len(sorted)])

RECURSIVE SortPairsDesc(_)
SortPairsDesc(pairs) ==
    IF pairs = <<>> THEN <<>>
    ELSE InsertDesc(SortPairsDesc(SubSeq(pairs, 1, Len(pairs) - 1)),
                    pairs[Len(pairs)])

SortedDesc(seq, keys) ==
    LET sorted == SortPairsDesc([i \in 1..Len(seq) |-> <<keys[i], seq[i]>>])
    IN  [i \in 1..Len(seq) |-> sorted[i][2]]

\* key=lambda s: s.duration_threshold
ThresholdKeys(stage_list) ==
    [i \in 1..Len(stage_list) |-> stage_list[i].duration_threshold]

\* key=lambda x: x[0]
TimeKeys(list) == [i \in 1..Len(list) |-> list[i][1]]

\* the constructor sorting without reverse=True
StageConfigInitAscending(stage_list) ==
    LET desc == SortedDesc(stage_list, ThresholdKeys(stage_list))
    IN  [i \in 1..Len(desc) |-> desc[Len(desc) + 1 - i]]

StageConfigInit(stage_list) == SortedDesc(stage_list, ThresholdKeys(stage_list))

StageConfigDefault ==
    StageConfigInit(<<Stage("countdown", 10, 1, "low"),
                      Stage("one_minute", 60, 10, "high"),
                      Stage("everything", 0, 60, "high")>>)

RECURSIVE NextThresholdFrom(_, _, _, _)
NextThresholdFrom(self_stages, current_stage, i, found_current) ==
    IF i > Len(self_stages) THEN 0
    ELSE IF found_current THEN self_stages[i].duration_threshold
    ELSE NextThresholdFrom(self_stages, current_stage, i + 1,
                           self_stages[i].name = current_stage.name)

get_next_threshold(self_stages, current_stage) ==
    NextThresholdFrom(self_stages, current_stage, 1, FALSE)

Min(a, b) == IF a < b THEN a ELSE b
Max(a, b) == IF a > b THEN a ELSE b

\* start and end of a stage's walk (lines 155-163)
StageStart(stage, total) ==
    IF stage.duration_threshold = 0 THEN total
    ELSE Min(stage.duration_threshold, total)

StageEnd(self_stages, stage) == get_next_threshold(self_stages, stage)

\* the append condition without the processed_times test
KeepCandidateNoDedup(announcement_time, end, total, processed) ==
    /\ announcement_time > end
    /\ announcement_time <= total
    /\ announcement_time > 0

\* the append condition with the lower boundary included
KeepCandidateInclusive(announcement_time, end, total, processed) ==
    /\ announcement_time >= end
    /\ announcement_time <= total
    /\ announcement_time \notin processed
    /\ announcement_time > 0

\* the condition under which a candidate is appended (lines 174-179)
KeepCandidate(announcement_time, end, total, processed) ==
    /\ announcement_time > end
    /\ announcement_time <= total
    /\ announcement_time \notin processed
    /\ announcement_time > 0

\* the walk with both boundaries of the window included
RECURSIVE StageWalkClosed(_, _, _, _, _)
StageWalkClosed(stage, current, end, total, acc) ==
    IF current >= end THEN
        LET announcement_time ==
                (current \div stage.announcement_interval)
                    * stage.announcement_interval
            acc2 ==
                IF /\ announcement_time >= end
                   /\ announcement_time <= total
                   /\ announcement_time \notin acc.proc
                THEN [ann |-> Append(acc.ann,
                                     <<announcement_time,
                                       format_announcement(stage, announcement_time)>>),
                      proc |-> acc.proc \cup {announcement_time}]
                ELSE acc
        IN  StageWalkClosed(stage, current - stage.announcement_interval, end,
                            total, acc2)
    ELSE acc

\* the while loop of one stage (lines 166-184); acc = [ann, proc]
RECURSIVE StageWalk(_, _, _, _, _)
StageWalk(stage, current, end, total, acc) ==
    IF current > end THEN
        LET announcement_time ==
                (current \div stage.announcement_interval)
                    * stage.announcement_interval
            acc2 ==
                IF KeepCandidate(announcement_time, end, total, acc.proc)
                THEN [ann |-> Append(acc.ann,
                                     <<announcement_time,
                                       format_announcement(stage, announcement_time)>>),
                      proc |-> acc.proc \cup {announcement_time}]
                ELSE acc
        IN  StageWalk(stage, current - stage.announcement_interval, end, total, acc2)
    ELSE acc

\* processed_times kept from the previous call
StaleProcessedTimes == processed_times

\* processed_times = set() at the start of a call (line 151)
NewProcessedTimes == {}

\* the for loop over self.stages, up to and including stage n (lines 154-184)
RECURSIVE AfterStages(_, _, _)
AfterStages(self_stages, total, n) ==
    IF n = 0 THEN [ann |-> <<>>, proc |-> NewProcessedTimes]
    ELSE LET stage == self_stages[n]
         IN  StageWalk(stage, StageStart(stage, total),
                       StageEnd(self_stages, stage), total,
                       AfterStages(self_stages, total, n - 1))

\* ---------------------------------------------------------------- actions
Verbosities == {"low", "high"}

\* The configuration screen builds three rows, the third with threshold 0
\* (ui.py get_stage / get_stage_config); a settings file read by from_dict
\* may repeat a name.
InputConfigs ==
    { <<Stage("countdown", t1, i1, v1),
        Stage(n2, t2, i2, v2),
        Stage("everything", 0, i3, v3)>> :
        t1 \in 0..MaxThreshold, t2 \in 0..MaxThreshold,
        i1 \in 1..MaxInterval, i2 \in 1..MaxInterval, i3 \in 1..MaxInterval,
        v1 \in Verbosities, v2 \in Verbosities, v3 \in Verbosities,
        n2 \in {"countdown", "one_minute"} }

InitCall ==
    /\ pc = "idle"
    /\ total_seconds = 0
    /\ announcements = <<>>
    /\ processed_times = {}
    /\ first_call = <<>>
    /\ interleaved = FALSE

InitIdleRender ==
    /\ r_pc = "idle"
    /\ r_total = 0
    /\ r_announcements = <<>>
    /\ include_finished = FALSE
    /\ sorted_announcements = <<>>
    /\ idx = 0
    /\ current_position = 0
    /\ audio_data = <<>>
    /\ tts_errors = 0
    /\ tts_calls = <<>>
    /\ temp_files = <<>>
    /\ fs = {}
    /\ next_path = 1

\* no time/text function has been called
NoCall == [fn |-> "none", arg |-> <<>>]
NoReturn == [ok |-> FALSE, val |-> <<>>]

InitText ==
    /\ call = NoCall
    /\ ret = NoReturn

InitLegacy ==
    /\ l_pc = "idle"
    /\ l_total = 0
    /\ multiplier = 2
    /\ shortest_seconds = 0
    /\ intervals = <<>>
    /\ l_current = 0
    /\ l_result = <<>>

\* the StageConfig was handed over already built
InitRoundTrip ==
    /\ built_input = <<>>
    /\ c_pc = "built"
    /\ saved = <<>>
    /\ reloaded = <<>>
    /\ resaved = <<>>

InitConfig ==
    /\ built_by = "given"
    /\ InitRoundTrip

InitCleanup ==
    /\ remove_failed = {}
    /\ cleanup_calls = 0

InitFullIdle ==
    /\ f_pc = "idle"
    /\ prep_seconds = 0
    /\ main_seconds = 0
    /\ prep_announcements = <<>>
    /\ main_announcements = <<>>
    /\ prep_audio = <<>>
    /\ full_audio = <<>>
    /\ output_path = 0

\* a dictionary with no items
EmptyDict == [k \in {} |-> 0]

InitSettingsIdle ==
    /\ settings_file = [kind |-> "missing", obj |-> EmptyDict]
    /\ s_pc = "idle"
    /\ s_ret = EmptyDict
    /\ s_exc = "none"

\* AudioTimer.__init__ and AudioPlayer.__init__
InitTimerIdle ==
    /\ now = 0
    /\ t_pc = "idle"
    /\ audio_offset = 0
    /\ timer_running = FALSE
    /\ start_time = -1
    /\ in_prep_phase = TRUE
    /\ label = -1
    /\ label_at = -1
    /\ visual_start = -1
    /\ due = -1
    /\ switches = 0
    /\ complete_calls = 0
    /\ late = 0
    /\ player_pc = "idle"
    /\ playing = FALSE
    /\ play_end = -1

\* no polling timer() has been called
InitPollIdle ==
    /\ p_pc = "idle"
    /\ p_variant = "package"
    /\ p_total = 0
    /\ p_thresholds = <<>>
    /\ p_offset = 0
    /\ p_shortest = 0
    /\ announced = <<>>
    /\ short_timer_announced = FALSE
    /\ final_countdown_from = 0
    /\ final_countdown_started = FALSE
    /\ last_beep_number = -1
    /\ p_elapsed = 0
    /\ p_spoken = <<>>

\* generate_announcements has not been entered
InitWalkIdle ==
    /\ w_pc = "idle"
    /\ w_total = 0
    /\ w_stage = 0
    /\ w_current = 0
    /\ w_end = 0
    /\ w_announcements = <<>>
    /\ w_processed_times = {}
    /\ w_iterations = 0

InitExtra == InitSettingsIdle /\ InitTimerIdle /\ InitPollIdle /\ InitWalkIdle

InitAux ==
    /\ InitText /\ InitLegacy /\ InitConfig /\ InitCleanup /\ InitFullIdle
    /\ InitExtra

Init ==
    /\ \E cfg \in InputConfigs : stages = StageConfigInit(cfg)
    /\ InitCall
    /\ InitIdleRender
    /\ InitAux

InitDefault ==
    /\ stages = StageConfigDefault
    /\ InitCall
    /\ InitIdleRender
    /\ InitAux

generate_announcements(total) ==
    LET final == AfterStages(stages, total, Len(stages))
        result == SortedDesc(final.ann, TimeKeys(final.ann))
    IN  /\ pc' = "returned"
        /\ total_seconds' = total
        /\ announcements' = result
        /\ processed_times' = final.proc
        /\ first_call' = IF first_call = <<>> THEN <<total, result>> ELSE first_call
        /\ interleaved' = (interleaved
                            \/ (first_call # <<>> /\ total # first_call[1]))
        /\ UNCHANGED stages
        /\ UNCHANGED renderVars
        /\ UNCHANGED auxVars

\* one call on a fresh configuration
Next ==
    /\ pc = "idle"
    /\ \E total \in 0..MaxTotal : generate_announcements(total)

\* the totals of the repeated calls
RepeatTotals == {MaxTotal - 1, MaxTotal}

\* any number of calls on the same configuration
NextRepeat == \E total \in RepeatTotals : generate_announcements(total)

NextDefault ==
    /\ pc = "idle"
    /\ \E total \in 0..MaxTotalDefault : generate_announcements(total)

Spec == Init /\ [][Next]_vars

SpecDefault == InitDefault /\ [][NextDefault]_vars

SpecRepeat == Init /\ [][NextRepeat]_vars

\* ---------------------------------------------------------- AudioGenerator
\* the placeholder of the except branch, 0.5 s (line 118), in ticks
PlaceholderTicks == 1

Ticks(seconds) == 2 * seconds

\* what one call of _generate_speech_audio may do: return speech of some
\* duration, or fail inside the try block
\* utterances of 0.5 s, 1 s and 1.5 s: shorter than, equal to and longer
\* than the second between two countdown numbers
SpeechTicks == {1, 2, 3}

SpeechOutcomes ==
    {[ok |-> TRUE, ticks |-> d] : d \in SpeechTicks}
        \cup {[ok |-> FALSE, ticks |-> 0]}

\* the except branch returning a one-second placeholder
generate_speech_audio_long(outcome) ==
    IF outcome.ok THEN outcome.ticks ELSE Ticks(1)

\* duration returned by _generate_speech_audio (lines 86-118)
generate_speech_audio(outcome) ==
    IF outcome.ok THEN outcome.ticks ELSE PlaceholderTicks

Segment(kind, ticks) == [kind |-> kind, ticks |-> ticks]

tts_rate_normal == 180
tts_rate_countdown == 250

W_Finished == <<"F", "i", "n", "i", "s", "h", "e", "d">>

\* the countdown rate for texts of at most two characters only
SelectRateShort(text) ==
    IF Len(text) <= 2 /\ isdigit(RemoveSpaces(text))
    THEN tts_rate_countdown ELSE tts_rate_normal

\* the speech rate of an announcement (lines 194-197)
SelectRate(text) ==
    IF isdigit(text) \/ (Len(text) <= 2 /\ isdigit(RemoveSpaces(text)))
    THEN tts_rate_countdown ELSE tts_rate_normal

\* entry of _generate_speech_audio (lines 81-84): mkstemp, and the path is
\* appended to _temp_files before the try block
SpeechCall(text, rate) ==
    /\ tts_calls' = Append(tts_calls, [text |-> text, rate |-> rate,
                                       path |-> next_path])
    /\ temp_files' = Append(temp_files, next_path)
    /\ fs' = fs \cup {next_path}
    /\ next_path' = next_path + 1

\* the silence step with the cursor moved to the target in every case
AddSilenceAlways(acc, announcement_time) ==
    LET silence_duration == announcement_time - acc.pos
    IN  [audio |-> IF silence_duration > 0
                   THEN Append(acc.audio, Segment("silence", silence_duration))
                   ELSE acc.audio,
         pos |-> announcement_time]

\* "Add silence up to this point" (lines 189-192); acc = [audio, pos]
AddSilence(acc, announcement_time) ==
    LET silence_duration == announcement_time - acc.pos
    IN  IF silence_duration > 0
        THEN [audio |-> Append(acc.audio, Segment("silence", silence_duration)),
              pos |-> announcement_time]
        ELSE acc

\* append the speech and advance the cursor (lines 200-202, 212-216)
AddSpeech(acc, kind, outcome) ==
    LET speech_duration == generate_speech_audio(outcome)
    IN  [audio |-> Append(acc.audio, Segment(kind, speech_duration)),
         pos |-> acc.pos + speech_duration]

\* no silence after the last announcement
AddRemainingSilenceNever(acc, total) == acc

\* "Add silence until end of timer" (lines 205-208)
AddRemainingSilence(acc, total) ==
    LET remaining_silence == Ticks(total) - acc.pos
    IN  IF remaining_silence > 0
        THEN [audio |-> Append(acc.audio, Segment("silence", remaining_silence)),
              pos |-> Ticks(total)]
        ELSE acc

\* the announcements an override list or a schedule of verbosity v may hold
AnnouncementEntries(v) ==
    {<<r, format_announcement(Stage("any", 0, 1, v), r)>> :
        r \in 0..MaxRemaining}

RECURSIVE ListsUpTo(_, _)
ListsUpTo(S, n) ==
    IF n = 0 THEN {<<>>}
    ELSE LET shorter == ListsUpTo(S, n - 1)
         IN  shorter \cup {Append(l, x) : l \in shorter, x \in S}

\* the locals of generate_timer_audio as its loop is entered (lines 178-182)
StartRender(total, anns, finished) ==
    /\ r_pc' = "loop"
    /\ r_total' = total
    /\ r_announcements' = anns
    /\ include_finished' = finished
    /\ sorted_announcements' = SortedDesc(anns, TimeKeys(anns))
    /\ idx' = 0
    /\ current_position' = 0
    /\ audio_data' = <<>>
    /\ tts_errors' = 0
    /\ UNCHANGED <<tts_calls, temp_files, fs, next_path>>

\* entry of generate_timer_audio on a new AudioGenerator
generate_timer_audio(total, anns, finished) ==
    /\ r_pc = "idle"
    /\ StartRender(total, anns, finished)
    /\ UNCHANGED schedVars
    /\ UNCHANGED auxVars

\* one iteration of the for loop (lines 184-202)
RenderAnnouncement(outcome) ==
    /\ r_pc = "loop"
    /\ idx < Len(sorted_announcements)
    /\ LET remaining_seconds == sorted_announcements[idx + 1][1]
           announcement_time == Ticks(r_total - remaining_seconds)
           silenced == AddSilence([audio |-> audio_data, pos |-> current_position],
                                  announcement_time)
           spoken == AddSpeech(silenced, "speech", outcome)
       IN  /\ audio_data' = spoken.audio
           /\ current_position' = spoken.pos
    /\ LET text == sorted_announcements[idx + 1][2]
       IN  SpeechCall(text, SelectRate(text))
    /\ idx' = idx + 1
    /\ tts_errors' = IF outcome.ok THEN tts_errors ELSE tts_errors + 1
    /\ UNCHANGED <<r_pc, r_total, r_announcements, include_finished,
                   sorted_announcements>>
    /\ UNCHANGED schedVars
    /\ UNCHANGED auxVars

\* after the loop: trailing silence, "Finished", return (lines 204-218)
RenderReturn(outcome) ==
    /\ r_pc = "loop"
    /\ idx = Len(sorted_announcements)
    /\ LET padded == AddRemainingSilence([audio |-> audio_data,
                                          pos |-> current_position], r_total)
           final == IF include_finished
                    THEN AddSpeech(padded, "finished", outcome)
                    ELSE padded
       IN  /\ audio_data' = final.audio
           /\ current_position' = final.pos
    /\ IF include_finished THEN SpeechCall(W_Finished, tts_rate_normal)
       ELSE UNCHANGED <<tts_calls, temp_files, fs, next_path>>
    /\ tts_errors' = IF include_finished /\ ~outcome.ok
                     THEN tts_errors + 1 ELSE tts_errors
    /\ r_pc' = "done"
    /\ UNCHANGED <<r_total, r_announcements, include_finished,
                   sorted_announcements, idx>>
    /\ UNCHANGED schedVars
    /\ UNCHANGED auxVars

InitRender == InitDefault

NextRender ==
    \/ \E total \in 0..MaxRenderTotal, v \in Verbosities, finished \in BOOLEAN :
           \E anns \in ListsUpTo(AnnouncementEntries(v), MaxAnnouncements) :
               generate_timer_audio(total, anns, finished)
    \/ \E outcome \in SpeechOutcomes : RenderAnnouncement(outcome)
    \/ \E outcome \in SpeechOutcomes : RenderReturn(outcome)

SpecRender == InitRender /\ [][NextRender]_vars

\* the texts the renderer may be handed: those of a schedule, and those of
\* an announcement file, which are taken as written
ScheduledTexts ==
    {format_announcement(Stage("any", 0, 1, v), n) :
        v \in Verbosities, n \in 0..MaxFormatSeconds}

FileTexts ==
    {<<>>, <<" ">>, <<" ", "5">>, <<"5", " ">>, <<"g", "o">>, <<"1", " ", "2">>,
     <<"1", "0", "0", " ">>, <<"5", "s">>, W_Finished}

\* one render of a single announcement
NextRate ==
    \/ \E text \in ScheduledTexts \cup FileTexts, finished \in BOOLEAN :
           generate_timer_audio(MaxRenderTotal, <<<<1, text>>>>, finished)
    \/ \E outcome \in SpeechOutcomes : RenderAnnouncement(outcome)
    \/ \E outcome \in SpeechOutcomes : RenderReturn(outcome)

SpecRate == InitRender /\ [][NextRate]_vars

\* ------------------------------------------------- AudioGenerator.cleanup
Paths(files) == {files[i] : i \in DOMAIN files}

\* a cleanup that leaves the list as it was
AfterCleanupKept(files) == files

\* self._temp_files.clear() (line 290)
AfterCleanup(files) == <<>>

\* cleanup() (lines 278-290): every listed file that exists is removed,
\* unless os.remove raises for it (failing), which is swallowed
cleanup(failing) ==
    /\ r_pc \in {"idle", "done"}
    /\ cleanup_calls < MaxCleanups
    /\ failing \subseteq (Paths(temp_files) \cap fs)
    /\ fs' = fs \ (Paths(temp_files) \ failing)
    /\ temp_files' = AfterCleanup(temp_files)
    /\ remove_failed' = failing
    /\ cleanup_calls' = cleanup_calls + 1
    /\ UNCHANGED <<r_pc, r_total, r_announcements, include_finished,
                   sorted_announcements, idx, current_position, audio_data,
                   tts_errors, tts_calls, next_path>>
    /\ UNCHANGED <<schedVars, textVars, legacyVars, configVars, fullVars, extraVars>>

\* something else deletes a temporary file
FileVanishes(path) ==
    /\ r_pc \in {"idle", "done"}
    /\ path \in fs
    /\ fs' = fs \ {path}
    /\ UNCHANGED <<r_pc, r_total, r_announcements, include_finished,
                   sorted_announcements, idx, current_position, audio_data,
                   tts_errors, tts_calls, temp_files, next_path>>
    /\ UNCHANGED <<schedVars, auxVars>>

\* generate_timer_audio called again on the same AudioGenerator
RenderAgain(total, anns, finished) ==
    /\ r_pc = "done"
    /\ next_path <= MaxFiles
    /\ StartRender(total, anns, finished)
    /\ UNCHANGED schedVars
    /\ UNCHANGED auxVars

\* synthesis fails, or gives half a second of speech
FileOutcomes == {o \in SpeechOutcomes : o.ticks <= 1}

FileAnnouncements == {<<>>, <<<<1, <<"1">>>>>>}

NextFiles ==
    \/ \E anns \in FileAnnouncements, finished \in BOOLEAN :
           generate_timer_audio(1, anns, finished)
    \/ \E anns \in FileAnnouncements, finished \in BOOLEAN :
           RenderAgain(1, anns, finished)
    \/ \E outcome \in FileOutcomes : RenderAnnouncement(outcome)
    \/ \E outcome \in FileOutcomes : RenderReturn(outcome)
    \/ \E failing \in SUBSET fs : cleanup(failing)
    \/ \E path \in fs : FileVanishes(path)

SpecFiles == InitRender /\ [][NextFiles]_vars

\* -------------------------------------------------------------- time_utils
\* s.lower(), on the letters of the unit names
LowerChar(c) ==
    CASE c = "H" -> "h"
      [] c = "M" -> "m"
      [] c = "S" -> "s"
      [] OTHER -> c
Lower(s) == [i \in DOMAIN s |-> LowerChar(s[i])]

ValueError == [ok |-> FALSE, val |-> "ValueError"]
Return(v) == [ok |-> TRUE, val |-> v]

\* int(s) of a text: an optional sign, then digits; anything else raises
int_of_str(s) ==
    IF isdigit(s) THEN Return(IntOfDigits(s))
    ELSE IF Len(s) >= 2 /\ s[1] \in {"-", "+"} /\ isdigit(Tail(s))
    THEN Return(IF s[1] = "-" THEN 0 - IntOfDigits(Tail(s))
                ELSE IntOfDigits(Tail(s)))
    ELSE ValueError

\* int(x) of a float given in tenths: truncation toward zero
int_of_tenths(x) == IF x >= 0 THEN x \div 10 ELSE 0 - ((0 - x) \div 10)

\* re.search(r"(\d+)<unit>", s): the leftmost digit run that is directly
\* followed by the unit letter; group(1) is that whole run
re_search(s, unit) ==
    LET ends == {j \in DOMAIN s : j > 1 /\ s[j] = unit /\ s[j - 1] \in DigitSet}
    IN  IF ends = {} THEN [matched |-> FALSE, group |-> <<>>]
        ELSE LET j == CHOOSE e \in ends : \A f \in ends : e <= f
                 start == CHOOSE i \in 1..(j - 1) :
                            /\ \A k \in i..(j - 1) : s[k] \in DigitSet
                            /\ (i = 1 \/ s[i - 1] \notin DigitSet)
             IN  [matched |-> TRUE, group |-> SubSeq(s, start, j - 1)]

\* the argument of parse_time_string: a text, an int, or a float in tenths
StrArg(s) == [type |-> "str", text |-> s, number |-> 0]
IntArg(n) == [type |-> "int", text |-> <<>>, number |-> n]
FloatArg(tenths) == [type |-> "float", text |-> <<>>, number |-> tenths]

UnitTotal(s) ==
    LET hours_match == re_search(s, "h")
        minutes_match == re_search(s, "m")
        seconds_match == re_search(s, "s")
    IN  (IF hours_match.matched THEN IntOfDigits(hours_match.group) * 3600 ELSE 0)
        + (IF minutes_match.matched THEN IntOfDigits(minutes_match.group) * 60 ELSE 0)
        + (IF seconds_match.matched THEN IntOfDigits(seconds_match.group) ELSE 0)

parse_time_string(time_str) ==
    IF time_str.type = "int" THEN [ok |-> TRUE, val |-> time_str.number, fallback |-> FALSE]
    ELSE IF time_str.type = "float"
    THEN [ok |-> TRUE, val |-> int_of_tenths(time_str.number), fallback |-> FALSE]
    ELSE
        LET s == Lower(RemoveSpaces(time_str.text))
            total == UnitTotal(s)
            n == int_of_str(s)
        IN  IF total = 0
            THEN IF n.ok THEN [ok |-> TRUE, val |-> n.val, fallback |-> TRUE]
                 ELSE [ok |-> FALSE, val |-> "ValueError", fallback |-> TRUE]
            ELSE [ok |-> TRUE, val |-> total, fallback |-> FALSE]

\* f"{n:02d}": at least two characters, the sign counted
Pad2(n) ==
    IF n < 0 THEN PyStr(n)
    ELSE IF n < 10 THEN <<"0">> \o Str(n)
    ELSE Str(n)

format_time(seconds) ==
    LET minutes == seconds \div 60
        secs == seconds % 60
    IN  Pad2(minutes) \o <<":">> \o Pad2(secs)

\* format_time_announcement with the plural form in every phrase
format_time_announcement_plural(seconds) ==
    LET total == seconds
    IN  IF total >= 60 THEN
            LET minutes == total \div 60
                leftover_seconds == total % 60
            IN  IF leftover_seconds = 0
                THEN Str(minutes) \o SP \o W_minutes
                ELSE Str(minutes) \o SP \o W_minutes \o SP
                         \o Str(leftover_seconds) \o SP \o W_seconds
        ELSE Str(total) \o SP \o W_seconds

format_time_announcement(seconds) ==
    LET total == seconds
    IN  IF total >= 60 THEN
            LET minutes == total \div 60
                leftover_seconds == total % 60
                minute_word == IF minutes = 1 THEN W_minute ELSE W_minutes
                second_word == IF leftover_seconds = 1 THEN W_second ELSE W_seconds
            IN  IF leftover_seconds = 0
                THEN Str(minutes) \o SP \o minute_word
                ELSE Str(minutes) \o SP \o minute_word \o SP
                         \o Str(leftover_seconds) \o SP \o second_word
        ELSE
            LET second_word == IF total = 1 THEN W_second ELSE W_seconds
            IN  Str(total) \o SP \o second_word

\* DurationEntry.get_duration_string on the texts typed into the two fields
get_duration_string(minutes_var, seconds_var) ==
    LET mins == int_of_str(minutes_var)
        secs == int_of_str(seconds_var)
    IN  IF ~mins.ok \/ ~secs.ok THEN <<"0", "s">>
        ELSE IF mins.val > 0 /\ secs.val > 0
        THEN PyStr(mins.val) \o <<"m">> \o PyStr(secs.val) \o <<"s">>
        ELSE IF mins.val > 0 THEN PyStr(mins.val) \o <<"m">>
        ELSE PyStr(secs.val) \o <<"s">>

\* the characters of the texts handed to parse_time_string
TimeAlphabet == {"0", "5", "h", "m", "s", "S", " ", "-", "x"}

\* a component value; -1 stands for a component that is absent
ComponentChoices == {-1, 0, 2, 30}

Part(n, digits_to_unit, unit) ==
    IF n < 0 THEN <<>> ELSE Str(n) \o digits_to_unit \o <<unit>>

\* <h>h<m>m<s>s, and the same in capitals with blanks ("2 M 30 S")
TimeString(h, m, s) == Part(h, <<>>, "h") \o Part(m, <<>>, "m") \o Part(s, <<>>, "s")
TimeStringSpaced(h, m, s) == Part(h, SP, "H") \o Part(m, SP, "M") \o Part(s, SP, "S")

ComponentTriples ==
    {t \in ComponentChoices \X ComponentChoices \X ComponentChoices :
        t # <<-1, -1, -1>>}

ValidTimeStrings ==
    {TimeString(t[1], t[2], t[3]) : t \in ComponentTriples}
        \cup {TimeStringSpaced(t[1], t[2], t[3]) : t \in ComponentTriples}

\* what may stand in a field of the duration entry
TypedFields == {<<>>, <<"0">>, <<"1">>, <<"0", "5">>, <<"9", "0">>,
                <<"x">>, <<"-", "1">>}

ParseInputs ==
    {StrArg(s) : s \in ListsUpTo(TimeAlphabet, MaxTimeLen) \cup ValidTimeStrings}
        \cup {IntArg(n) : n \in (0 - MaxNumber)..MaxNumber}
        \cup {FloatArg(x) : x \in {-15, -5, 5, 15, 25}}

CallParseTimeString(time_str) ==
    /\ call' = [fn |-> "parse_time_string", arg |-> time_str]
    /\ ret' = parse_time_string(time_str)
    /\ UNCHANGED <<schedVars, renderVars, legacyVars, configVars, cleanupVars, fullVars, extraVars>>

\* DurationEntry.get_seconds
get_seconds(minutes_var, seconds_var) ==
    LET duration == StrArg(get_duration_string(minutes_var, seconds_var))
    IN  /\ call' = [fn |-> "get_seconds", arg |-> duration]
        /\ ret' = parse_time_string(duration)
        /\ UNCHANGED <<schedVars, renderVars, legacyVars, configVars, cleanupVars, fullVars, extraVars>>

\* format_time of the seconds just parsed (__main__.py line 55)
CallFormatTime ==
    /\ call.fn \in {"parse_time_string", "get_seconds"}
    /\ ret.ok
    /\ call' = [fn |-> "format_time", arg |-> ret.val, time_str |-> call.arg]
    /\ ret' = Return(format_time(ret.val))
    /\ UNCHANGED <<schedVars, renderVars, legacyVars, configVars, cleanupVars, fullVars, extraVars>>

CallFormatTimeAnnouncement(seconds) ==
    /\ call' = [fn |-> "format_time_announcement", arg |-> seconds]
    /\ ret' = Return(format_time_announcement(seconds))
    /\ UNCHANGED <<schedVars, renderVars, legacyVars, configVars, cleanupVars, fullVars, extraVars>>

CallFormatAnnouncement(verbosity, remaining_seconds) ==
    /\ call' = [fn |-> "format_announcement",
                arg |-> <<verbosity, remaining_seconds>>]
    /\ ret' = Return(format_announcement(Stage("any", 0, 1, verbosity),
                                          remaining_seconds))
    /\ UNCHANGED <<schedVars, renderVars, legacyVars, configVars, cleanupVars, fullVars, extraVars>>

\* the functions keep no state: one call per behaviour, and format_time of
\* what it parsed
NextText ==
    \/ /\ call = NoCall
       /\ \/ \E time_str \in ParseInputs : CallParseTimeString(time_str)
          \/ \E minutes_var \in TypedFields, seconds_var \in TypedFields :
                 get_seconds(minutes_var, seconds_var)
          \/ \E seconds \in 0..MaxFormatSeconds :
                 CallFormatTimeAnnouncement(seconds)
          \/ \E v \in Verbosities, n \in 0..MaxFormatSeconds :
                 CallFormatAnnouncement(v, n)
    \/ CallFormatTime

SpecText == InitDefault /\ [][NextText]_vars

\* ----------------------------------------------------------- announcements
\* int(current * multiplier), the multiplier in halves: truncation toward zero
TimesMultiplier(n, halves) ==
    LET doubled == n * halves
    IN  IF doubled >= 0 THEN doubled \div 2 ELSE 0 - ((0 - doubled) \div 2)

\* a while loop that also runs at current = total_seconds
LegacyWhileInclusive(cur, total) == cur <= total

\* the condition of the while loop (line 43)
LegacyWhile(cur, total) == cur < total

Multipliers == {1, 2, 3, 4, 6}

ShortestIntervals ==
    {StrArg(<<"1", "5", "s">>), StrArg(<<"1", "s">>), StrArg(<<"0", "s">>),
     StrArg(<<"x">>), StrArg(<<"-", "2">>), IntArg(0), IntArg(2), IntArg(7),
     FloatArg(25)}

\* entry of generate_announcement_intervals (lines 35-41)
generate_announcement_intervals(total, shortest_interval, mult) ==
    LET parsed == parse_time_string(shortest_interval)
    IN  /\ l_pc = "idle"
        /\ l_total' = total
        /\ multiplier' = mult
        /\ intervals' = <<>>
        /\ l_result' = <<>>
        /\ IF ~parsed.ok
           THEN /\ l_pc' = "raised"
                /\ UNCHANGED <<shortest_seconds, l_current>>
           ELSE /\ shortest_seconds' = parsed.val
                /\ IF total < parsed.val
                   THEN l_pc' = "returned" /\ UNCHANGED l_current
                   ELSE l_pc' = "loop" /\ l_current' = parsed.val
        /\ UNCHANGED <<schedVars, renderVars, textVars, configVars, cleanupVars, fullVars, extraVars>>

\* one iteration of the while loop (lines 43-45)
LegacyLoop ==
    /\ l_pc = "loop"
    /\ LegacyWhile(l_current, l_total)
    /\ Len(intervals) < MaxLoopSteps
    /\ intervals' = Append(intervals, l_current)
    /\ l_current' = TimesMultiplier(l_current, multiplier)
    /\ UNCHANGED <<l_pc, l_total, multiplier, shortest_seconds, l_result>>
    /\ UNCHANGED <<schedVars, renderVars, textVars, configVars, cleanupVars, fullVars, extraVars>>

\* the loop is left and the sorted list returned (line 47)
LegacyReturn ==
    /\ l_pc = "loop"
    /\ ~LegacyWhile(l_current, l_total)
    /\ l_result' = SortedDesc(intervals, intervals)
    /\ l_pc' = "returned"
    /\ UNCHANGED <<l_total, multiplier, shortest_seconds, intervals, l_current>>
    /\ UNCHANGED <<schedVars, renderVars, textVars, configVars, cleanupVars, fullVars, extraVars>>

NextLegacy ==
    \/ \E total \in 0..MaxLegacyTotal, shortest_interval \in ShortestIntervals,
          mult \in Multipliers :
           generate_announcement_intervals(total, shortest_interval, mult)
    \/ LegacyLoop
    \/ LegacyReturn

SpecLegacy == InitDefault /\ [][NextLegacy]_vars

\* ------------------------------------------------ building a StageConfig
\* a dictionary of a settings file: its <<key, value>> items in insertion
\* order; item[key] is the value of the item with that key
DictGet(item, key) ==
    item[CHOOSE k \in DOMAIN item : item[k][1] = key][2]

\* the Stage objects from_dict hands to __init__
StagesOfDicts(data) ==
    [i \in DOMAIN data |->
        Stage(DictGet(data[i], "name"), DictGet(data[i], "duration_threshold"),
              DictGet(data[i], "announcement_interval"),
              DictGet(data[i], "verbosity"))]

from_dict_unsorted(data) == StagesOfDicts(data)

\* StageConfig.from_dict: one Stage per dictionary, then __init__
from_dict(data) == StageConfigInit(StagesOfDicts(data))

\* StageConfig.to_dict
to_dict(self_stages) ==
    [i \in DOMAIN self_stages |->
        << <<"name", self_stages[i].name>>,
           <<"duration_threshold", self_stages[i].duration_threshold>>,
           <<"announcement_interval", self_stages[i].announcement_interval>>,
           <<"verbosity", self_stages[i].verbosity>> >>]

\* a stage row of the configuration screen: the texts of its four fields
StageRow(show_duration, original_threshold, dur_mins, dur_secs, int_mins, int_secs, verbosity) ==
    [show_duration |-> show_duration,
     original_threshold |-> original_threshold,
     dur_mins_var |-> dur_mins, dur_secs_var |-> dur_secs,
     int_mins_var |-> int_mins, int_secs_var |-> int_secs,
     verbosity_var |-> verbosity]

\* StageRow.get_stage
get_stage(self, name) ==
    LET mins == int_of_str(self.dur_mins_var)
        secs == int_of_str(self.dur_secs_var)
        duration_threshold ==
            IF self.show_duration
            THEN IF mins.ok /\ secs.ok THEN mins.val * 60 + secs.val
                 ELSE self.original_threshold
            ELSE 0
        int_mins == int_of_str(self.int_mins_var)
        int_secs == int_of_str(self.int_secs_var)
        interval ==
            IF int_mins.ok /\ int_secs.ok
            THEN IF int_mins.val * 60 + int_secs.val <= 0 THEN 1
                 ELSE int_mins.val * 60 + int_secs.val
            ELSE 1
    IN  Stage(name, duration_threshold, interval, self.verbosity_var)

\* ConfigScreen.get_stage_config
get_stage_config(countdown_row, one_minute_row, everything_row) ==
    StageConfigInit(<<get_stage(countdown_row, "countdown"),
                      get_stage(one_minute_row, "one_minute"),
                      get_stage(everything_row, "everything")>>)

\* what may be typed into a duration field and into an interval field
DurationFields == {<<"0">>, <<"1">>, <<"x">>, <<"-", "1">>}
IntervalFields == {<<"0">>, <<"2">>, <<"x">>}

\* the stage dictionaries a settings file may hold
StageDicts ==
    {to_dict(<<Stage(n, t, 1, "low")>>)[1] :
        n \in {"countdown", "everything"}, t \in {0, 10}}

LoadedStageLists ==
    ListsUpTo(StageDicts, MaxLoadedStages) \cup {to_dict(StageConfigDefault)}

BuildDefault ==
    /\ built_by = "none"
    /\ stages' = StageConfigDefault
    /\ built_by' = "default"
    /\ built_input' = StageConfigDefault
    /\ UNCHANGED <<c_pc, saved, reloaded, resaved>>
    /\ UNCHANGED <<pc, total_seconds, announcements, processed_times,
                   first_call, interleaved>>
    /\ UNCHANGED <<renderVars, textVars, legacyVars, cleanupVars, fullVars, extraVars>>

BuildFromDict(data) ==
    /\ built_by = "none"
    /\ stages' = from_dict(data)
    /\ built_by' = "from_dict"
    /\ built_input' = StagesOfDicts(data)
    /\ UNCHANGED <<c_pc, saved, reloaded, resaved>>
    /\ UNCHANGED <<pc, total_seconds, announcements, processed_times,
                   first_call, interleaved>>
    /\ UNCHANGED <<renderVars, textVars, legacyVars, cleanupVars, fullVars, extraVars>>

BuildFromScreen(countdown_row, one_minute_row, everything_row) ==
    /\ built_by = "none"
    /\ stages' = get_stage_config(countdown_row, one_minute_row, everything_row)
    /\ built_by' = "get_stage_config"
    /\ built_input' = <<get_stage(countdown_row, "countdown"),
                        get_stage(one_minute_row, "one_minute"),
                        get_stage(everything_row, "everything")>>
    /\ UNCHANGED <<c_pc, saved, reloaded, resaved>>
    /\ UNCHANGED <<pc, total_seconds, announcements, processed_times,
                   first_call, interleaved>>
    /\ UNCHANGED <<renderVars, textVars, legacyVars, cleanupVars, fullVars, extraVars>>

\* no StageConfig has been built
InitNoConfig ==
    /\ stages = <<>>
    /\ built_by = "none"
    /\ InitRoundTrip
    /\ InitCall
    /\ InitIdleRender
    /\ InitText
    /\ InitLegacy
    /\ InitCleanup
    /\ InitFullIdle
    /\ InitExtra

\* ConfigScreen.save: settings["stages"] = stage_config.to_dict()
SaveStages ==
    /\ built_by # "none"
    /\ c_pc = "built"
    /\ saved' = to_dict(stages)
    /\ c_pc' = "saved"
    /\ UNCHANGED <<schedVars, built_by, built_input, reloaded, resaved>>
    /\ UNCHANGED <<renderVars, textVars, legacyVars, cleanupVars, fullVars, extraVars>>

\* ConfigManager.get_stage_config: StageConfig.from_dict(settings["stages"])
LoadStages ==
    /\ c_pc = "saved"
    /\ reloaded' = from_dict(saved)
    /\ c_pc' = "reloaded"
    /\ UNCHANGED <<schedVars, built_by, built_input, saved, resaved>>
    /\ UNCHANGED <<renderVars, textVars, legacyVars, cleanupVars, fullVars, extraVars>>

\* to_dict() of the reloaded configuration
SaveAgain ==
    /\ c_pc = "reloaded"
    /\ resaved' = to_dict(reloaded)
    /\ c_pc' = "resaved"
    /\ UNCHANGED <<schedVars, built_by, built_input, saved, reloaded>>
    /\ UNCHANGED <<renderVars, textVars, legacyVars, cleanupVars, fullVars, extraVars>>

NextConfig ==
    \/ SaveStages
    \/ LoadStages
    \/ SaveAgain
    \/ BuildDefault
    \/ \E data \in LoadedStageLists : BuildFromDict(data)
    \/ \E dm1 \in DurationFields, ds1 \in DurationFields,
          dm2 \in DurationFields, ds2 \in DurationFields,
          is1 \in IntervalFields, is2 \in IntervalFields, is3 \in IntervalFields,
          v \in Verbosities :
           BuildFromScreen(StageRow(TRUE, 10, dm1, ds1, <<"0">>, is1, v),
                           StageRow(TRUE, 60, dm2, ds2, <<"0">>, is2, v),
                           StageRow(FALSE, 0, <<"0">>, <<"0">>, <<"0">>, is3, v))

SpecConfig == InitNoConfig /\ [][NextConfig]_vars

\* ------------------------------------------ ConfigManager.load_settings
SettingKeys ==
    {"prep_duration", "main_duration", "audio_offset", "stages",
     "tts_rate_normal", "tts_rate_countdown"}

\* ConfigManager._get_default_settings
DefaultValue(key) ==
    CASE key = "prep_duration" -> <<"2", "0", "s">>
      [] key = "main_duration" -> <<"6", "m", "5", "5", "s">>
      [] key = "audio_offset" -> 0
      [] key = "stages" -> to_dict(StageConfigDefault)
      [] key = "tts_rate_normal" -> tts_rate_normal
      [] key = "tts_rate_countdown" -> tts_rate_countdown

_get_default_settings == [key \in SettingKeys |-> DefaultValue(key)]

\* a value a settings file may hold for a key, none of them the default
StoredValue(key) ==
    CASE key = "prep_duration" -> <<"5", "s">>
      [] key = "main_duration" -> <<"1", "m">>
      [] key = "audio_offset" -> 1
      [] key = "stages" -> to_dict(<<Stage("everything", 0, 5, "low")>>)
      [] key = "tts_rate_normal" -> 100
      [] key = "tts_rate_countdown" -> 300

\* what settings.json may be: no file; a file that cannot be opened; bytes that
\* are not UTF-8; text that is not JSON; a JSON value that is not an object;
\* a JSON object holding any of the six keys
NoObjectKinds ==
    {"missing", "unreadable", "bytes", "text", "array", "number", "string", "null"}

FileContents ==
    {[kind |-> k, obj |-> EmptyDict] : k \in NoObjectKinds}
    \cup {[kind |-> "object", obj |-> [key \in keys |-> StoredValue(key)]] :
             keys \in SUBSET SettingKeys}

ObjectFile(settings) == [kind |-> "object", obj |-> settings]

\* open() and json.load(f): the exception raised, "none" for a JSON value
json_load(content) ==
    CASE content.kind = "unreadable" -> "IOError"
      [] content.kind = "bytes" -> "UnicodeDecodeError"
      [] content.kind = "text" -> "JSONDecodeError"
      [] OTHER -> "none"

\* the merge loop: for key, value in default_settings.items():
\*     if key not in settings: settings[key] = value
MergeDefaults(settings) ==
    [key \in DOMAIN settings \cup SettingKeys |->
        IF key \in DOMAIN settings THEN settings[key] ELSE DefaultValue(key)]

\* the exception types the except clause of load_settings names
CaughtOnLoad == {"JSONDecodeError", "IOError"}

\* ConfigManager.save_settings: an IOError of the write is printed and dropped
save_settings(content, settings, write_ok) ==
    IF write_ok THEN ObjectFile(settings) ELSE content

\* ConfigManager.load_settings: [exc, val, file]
load_settings(content, write_ok) ==
    IF content.kind = "missing"
    THEN [exc |-> "none", val |-> _get_default_settings,
          file |-> save_settings(content, _get_default_settings, write_ok)]
    ELSE IF json_load(content) # "none"
    THEN IF json_load(content) \in CaughtOnLoad
         THEN [exc |-> "none", val |-> _get_default_settings, file |-> content]
         ELSE [exc |-> json_load(content), val |-> EmptyDict, file |-> content]
    ELSE IF content.kind = "object"
    THEN [exc |-> "none", val |-> MergeDefaults(content.obj), file |-> content]
    ELSE [exc |-> "TypeError", val |-> EmptyDict, file |-> content]

\* a call of load_settings on the file as it is
CallLoadSettings(write_ok) ==
    /\ s_pc = "idle"
    /\ LET r == load_settings(settings_file, write_ok)
       IN  /\ s_pc' = IF r.exc = "none" THEN "returned" ELSE "raised"
           /\ s_ret' = r.val
           /\ s_exc' = r.exc
           /\ settings_file' = r.file
    /\ UNCHANGED <<schedVars, renderVars, textVars, legacyVars, configVars, cleanupVars, fullVars>>
    /\ UNCHANGED <<timerVars, playerVars, pollVars, walkVars>>

\* ConfigScreen.save_settings: load, overwrite the durations and stages with
\* the screen's, save
ScreenSave(prep, write_ok) ==
    /\ s_pc = "returned"
    /\ LET r == load_settings(settings_file, write_ok)
           settings == [key \in DOMAIN r.val |->
                           CASE key = "prep_duration" -> prep
                             [] key = "main_duration" -> DefaultValue(key)
                             [] key = "stages" -> DefaultValue(key)
                             [] OTHER -> r.val[key]]
       IN  IF r.exc = "none"
           THEN /\ settings_file' = save_settings(r.file, settings, write_ok)
                /\ s_pc' = "idle"
                /\ UNCHANGED <<s_ret, s_exc>>
           ELSE /\ s_pc' = "raised"
                /\ s_exc' = r.exc
                /\ UNCHANGED <<settings_file, s_ret>>
    /\ UNCHANGED <<schedVars, renderVars, textVars, legacyVars, configVars, cleanupVars, fullVars>>
    /\ UNCHANGED <<timerVars, playerVars, pollVars, walkVars>>

InitSettings ==
    /\ stages = StageConfigDefault
    /\ InitCall
    /\ InitIdleRender
    /\ InitText /\ InitLegacy /\ InitConfig /\ InitCleanup /\ InitFullIdle
    /\ settings_file \in FileContents
    /\ s_pc = "idle"
    /\ s_ret = EmptyDict
    /\ s_exc = "none"
    /\ InitTimerIdle
    /\ InitPollIdle
    /\ InitWalkIdle

NextSettings ==
    \/ \E write_ok \in BOOLEAN : CallLoadSettings(write_ok)
    \/ \E prep \in {StoredValue("prep_duration"), DefaultValue("prep_duration")},
          write_ok \in BOOLEAN : ScreenSave(prep, write_ok)

SpecSettings == InitSettings /\ [][NextSettings]_vars

\* ------------------------------------- AudioGenerator.generate_full_audio
\* what generate_announcements returns for a total
ScheduleOf(self_stages, total) ==
    LET final == AfterStages(self_stages, total, Len(self_stages))
    IN  SortedDesc(final.ann, TimeKeys(final.ann))

\* the two renders joined with the main one first
CombineMainFirst(prep, main) == main \o prep

\* full_audio = prep_audio + main_audio (line 261)
Combine(prep, main) == prep \o main

\* the duration texts of the configuration screen for 0:00 .. 0:MaxFullSeconds
FullDurations ==
    {get_duration_string(<<"0">>, Str(n)) : n \in 0..MaxFullSeconds}

FullConfigs ==
    {StageConfigDefault, StageConfigInit(<<Stage("everything", 0, 1, "high")>>)}

\* synthesis fails, or gives a second or more of speech
FullOutcomes == {o \in SpeechOutcomes : ~o.ok \/ o.ticks >= 2}

\* entry of generate_full_audio up to the loop of the prep render
\* (lines 243-253)
generate_full_audio(prep_duration, main_duration) ==
    LET prep == parse_time_string(StrArg(prep_duration))
        main == parse_time_string(StrArg(main_duration))
    IN  /\ f_pc = "idle"
        /\ r_pc = "idle"
        /\ IF ~prep.ok \/ ~main.ok
           THEN /\ f_pc' = "raised"
                /\ UNCHANGED <<prep_seconds, main_seconds, prep_announcements,
                               main_announcements>>
                /\ UNCHANGED renderVars
           ELSE /\ f_pc' = "prep"
                /\ prep_seconds' = prep.val
                /\ main_seconds' = main.val
                /\ prep_announcements' = ScheduleOf(stages, prep.val)
                /\ main_announcements' = ScheduleOf(stages, main.val)
                /\ StartRender(prep.val, ScheduleOf(stages, prep.val), FALSE)
        /\ UNCHANGED <<prep_audio, full_audio, output_path>>
        /\ UNCHANGED <<schedVars, textVars, legacyVars, configVars, cleanupVars, extraVars>>

\* the prep render has returned; the main render is entered (lines 256-258)
FullStartMain ==
    /\ f_pc = "prep"
    /\ r_pc = "done"
    /\ prep_audio' = audio_data
    /\ f_pc' = "main"
    /\ StartRender(main_seconds, main_announcements, TRUE)
    /\ UNCHANGED <<prep_seconds, main_seconds, prep_announcements,
                   main_announcements, full_audio, output_path>>
    /\ UNCHANGED <<schedVars, textVars, legacyVars, configVars, cleanupVars, extraVars>>

\* the main render has returned; the track is joined and written to a new
\* temporary file (lines 261-276)
FullFinish ==
    /\ f_pc = "main"
    /\ r_pc = "done"
    /\ full_audio' = Combine(prep_audio, audio_data)
    /\ output_path' = next_path
    /\ temp_files' = Append(temp_files, next_path)
    /\ fs' = fs \cup {next_path}
    /\ next_path' = next_path + 1
    /\ f_pc' = "done"
    /\ UNCHANGED <<r_pc, r_total, r_announcements, include_finished,
                   sorted_announcements, idx, current_position, audio_data,
                   tts_errors, tts_calls>>
    /\ UNCHANGED <<prep_seconds, main_seconds, prep_announcements,
                   main_announcements, prep_audio>>
    /\ UNCHANGED <<schedVars, textVars, legacyVars, configVars, cleanupVars, extraVars>>

InitFull ==
    /\ stages \in FullConfigs
    /\ InitCall
    /\ InitIdleRender
    /\ InitAux

NextFull ==
    \/ \E prep_duration \in FullDurations, main_duration \in FullDurations :
           generate_full_audio(prep_duration, main_duration)
    \/ \E outcome \in FullOutcomes : RenderAnnouncement(outcome)
    \/ \E outcome \in FullOutcomes : RenderReturn(outcome)
    \/ FullStartMain
    \/ FullFinish

SpecFull == InitFull /\ [][NextFull]_vars

\* ------------------------------------------------- vocabulary of the claims
Returned == pc = "returned"

Range(seq) == {seq[i] : i \in DOMAIN seq}

Times(list) == {list[i][1] : i \in DOMAIN list}

UniqueNames(S) ==
    \A i, j \in DOMAIN S : i # j => S[i].name # S[j].name

OneFallback(S) ==
    Cardinality({i \in DOMAIN S : S[i].duration_threshold = 0}) = 1

\* the data model of a configuration: unique names, exactly one fallback
WellFormed(S) == UniqueNames(S) /\ OneFallback(S)

DistinctThresholds(S) ==
    \A i, j \in DOMAIN S :
        i # j => S[i].duration_threshold # S[j].duration_threshold

\* threshold of the stage that follows stage i in descending-threshold order
FollowingThreshold(S, i) ==
    IF i < Len(S) THEN S[i + 1].duration_threshold ELSE 0

\* the announcements appended while stage i was processed
Contribution(S, total, i) ==
    LET before == AfterStages(S, total, i - 1).ann
        after == AfterStages(S, total, i).ann
    IN  SubSeq(after, Len(before) + 1, Len(after))

\* t is a grid point of stage i inside the stage's window, which reaches
\* from the threshold of the following stage (exclusive) up to the total for
\* the fallback and up to min(threshold, total) for the other stages
IsCandidate(S, total, i, t) ==
    /\ t % S[i].announcement_interval = 0
    /\ t > FollowingThreshold(S, i)
    /\ t <= (IF S[i].duration_threshold = 0 THEN total
             ELSE Min(S[i].duration_threshold, total))
    /\ t > 0

CandidateStages(S, total, t) ==
    {i \in DOMAIN S : IsCandidate(S, total, i, t)}

RenderDone == r_pc = "done"

RECURSIVE SumTicks(_)
SumTicks(segments) ==
    IF segments = <<>> THEN 0
    ELSE SumTicks(SubSeq(segments, 1, Len(segments) - 1))
             + segments[Len(segments)].ticks

\* position in the track at which segment k starts and ends
SegmentStart(k) == SumTicks(SubSeq(audio_data, 1, k - 1))
SegmentEnd(k) == SumTicks(SubSeq(audio_data, 1, k))

SpeechSegments == {k \in DOMAIN audio_data : audio_data[k].kind = "speech"}

\* index in audio_data of the speech of sorted_announcements[n]
NthSpeech(n) ==
    CHOOSE k \in SpeechSegments :
        Cardinality({j \in SpeechSegments : j <= k}) = n

EndOfLastSpeech ==
    IF SpeechSegments = {} THEN 0
    ELSE SegmentEnd(CHOOSE k \in SpeechSegments : \A j \in SpeechSegments : j <= k)

\* distinct positive remaining times, none above the total
DistinctPositive(anns, total) ==
    /\ \A i \in DOMAIN anns : 0 < anns[i][1] /\ anns[i][1] <= total
    /\ \A i, j \in DOMAIN anns : i # j => anns[i][1] # anns[j][1]

\* a Schedule of the data model: also sorted by remaining time descending
IsSchedule(anns, total) ==
    /\ DistinctPositive(anns, total)
    /\ \A i \in 1..(Len(anns) - 1) : anns[i][1] > anns[i + 1][1]

SynthesisCalls == idx + (IF RenderDone /\ include_finished THEN 1 ELSE 0)

\* ---------------------------------------------------------------- claims

\* C1: the returned list is strictly descending in remaining_seconds (so no
\* value occurs twice) and every entry satisfies 0 < remaining <= total.
C1_StrictlyDescendingInRange ==
    Returned =>
        /\ \A i \in 1..(Len(announcements) - 1) :
               announcements[i][1] > announcements[i + 1][1]
        /\ \A i \in DOMAIN announcements :
               0 < announcements[i][1] /\ announcements[i][1] <= total_seconds

\* a call that returned several entries although two stages walked over the
\* same time
C1_Witness ==
    /\ Returned
    /\ Len(announcements) >= 3
    /\ \E t \in 1..total_seconds :
           Cardinality(CandidateStages(stages, total_seconds, t)) >= 2

\* C2: with unique names, every non-fallback stage s contributes every
\* positive multiple of its interval in (end, min(threshold, total)], end
\* being the threshold of the stage after s, each with the text s formats;
\* s never contributes end itself.
C2_NonFallbackWindowComplete ==
    (Returned /\ UniqueNames(stages)) =>
        \A i \in DOMAIN stages :
            stages[i].duration_threshold > 0 =>
                LET s == stages[i]
                    end == FollowingThreshold(stages, i)
                    hi == Min(s.duration_threshold, total_seconds)
                    mine == Contribution(stages, total_seconds, i)
                IN  /\ \A t \in (end + 1)..hi :
                           t % s.announcement_interval = 0 =>
                               <<t, format_announcement(s, t)>> \in Range(announcements)
                    /\ \A k \in DOMAIN mine : mine[k][1] > end

\* a stage with a window of two grid points whose lower bound is itself on
\* the grid of the stage
C2_Witness ==
    /\ Returned
    /\ UniqueNames(stages)
    /\ \E i \in DOMAIN stages :
           LET s == stages[i]
               end == FollowingThreshold(stages, i)
           IN  /\ s.duration_threshold > 0
               /\ end > 0
               /\ end % s.announcement_interval = 0
               /\ Len(Contribution(stages, total_seconds, i)) >= 1
               /\ total_seconds < s.duration_threshold

\* C3: every announcement produced from the fallback stage has a remaining
\* time greater than every other stage's threshold.
C3_FallbackAboveAllThresholds ==
    (Returned /\ WellFormed(stages) /\ DistinctThresholds(stages)) =>
        \A i \in DOMAIN stages :
            stages[i].duration_threshold = 0 =>
                LET mine == Contribution(stages, total_seconds, i)
                IN  \A k \in DOMAIN mine :
                        \A j \in DOMAIN stages :
                            j # i => mine[k][1] > stages[j].duration_threshold

C5_DefaultSchedule ==
    (Returned /\ stages = StageConfigDefault) =>
        LET T == total_seconds
            expected ==
                {t \in 1..T :
                    \/ t > 60 /\ t % 60 = 0
                    \/ t > 10 /\ t <= Min(60, T) /\ t % 10 = 0
                    \/ t <= Min(10, T)}
            phrase(t) == format_announcement(Stage("any", 0, 1, "high"), t)
        IN  /\ Times(announcements) = expected
            /\ Len(announcements) = Cardinality(expected)
            /\ \A k \in DOMAIN announcements :
                   announcements[k][2] =
                       IF announcements[k][1] <= 10
                       THEN Str(announcements[k][1])
                       ELSE phrase(announcements[k][1])
            /\ T = 130 =>
                   /\ <<60, <<"1", " ", "m", "i", "n", "u", "t", "e", " ",
                              "r", "e", "m", "a", "i", "n", "i", "n", "g">>>>
                          \in Range(announcements)
                   /\ <<10, <<"1", "0">>>> \in Range(announcements)
                   /\ \A n \in 1..9 :
                          <<n, <<DigitChars[n + 1]>>>> \in Range(announcements)

\* the call generate_announcements(130) on the default configuration
C5_Witness ==
    /\ Returned
    /\ stages = StageConfigDefault
    /\ total_seconds = 130
    /\ Len(announcements) = 16

\* C6: a stage whose window collapses (start <= end) contributes nothing,
\* and a call with total_seconds = 0 returns the empty list.
C6_CollapsedWindowEmpty ==
    Returned =>
        /\ \A i \in DOMAIN stages :
               StageStart(stages[i], total_seconds) <= StageEnd(stages, stages[i])
                   => Contribution(stages, total_seconds, i) = <<>>
        /\ total_seconds = 0 => announcements = <<>>

\* a call with a positive total in which one stage's window collapsed while
\* another stage contributed
C6_Witness ==
    /\ Returned
    /\ total_seconds > 0
    /\ announcements # <<>>
    /\ \E i \in DOMAIN stages :
           /\ stages[i].duration_threshold > 0
           /\ StageStart(stages[i], total_seconds) <= StageEnd(stages, stages[i])

C8_DurationEqualsTotal ==
    (RenderDone /\ IsSchedule(r_announcements, r_total)) =>
        /\ ~include_finished => current_position = Ticks(r_total)
        /\ include_finished => current_position >= Ticks(r_total)

\* C8 amended: the returned duration is the sum of all segment durations;
\* without "Finished" it equals total_seconds when no speech ran past
\* total_seconds and the end of the last speech otherwise; with "Finished" it
\* is at least total_seconds.
C8_DurationTotalUnlessOvershoot ==
    RenderDone =>
        /\ current_position = SumTicks(audio_data)
        /\ ~include_finished =>
               current_position = Max(Ticks(r_total), EndOfLastSpeech)
        /\ include_finished => current_position >= Ticks(r_total)

\* a finished render of a schedule whose last speech ran past the total
C8_Witness ==
    /\ RenderDone
    /\ ~include_finished
    /\ IsSchedule(r_announcements, r_total)
    /\ r_announcements # <<>>
    /\ EndOfLastSpeech > Ticks(r_total)

\* C9: the cursor never decreases, and the speech of the announcement with
\* remaining time r starts at max(total_seconds - r, end of the previous
\* speech).
C9_SpeechStartsAtMax ==
    /\ [](\A n \in 1..idx :
              LET k == NthSpeech(n)
                  target == Ticks(r_total - sorted_announcements[n][1])
                  previous_end == IF n = 1 THEN 0 ELSE SegmentEnd(NthSpeech(n - 1))
              IN  /\ SegmentStart(k) = Max(target, previous_end)
                  /\ SegmentStart(k) >= target
                  /\ previous_end <= target => SegmentStart(k) = target)
    /\ [][current_position' >= current_position]_vars

\* two speeches rendered: the first exactly at its positive target, the
\* second delayed by the first
C9_Witness ==
    /\ idx = 2
    /\ SegmentStart(NthSpeech(1)) = Ticks(r_total - sorted_announcements[1][1])
    /\ SegmentStart(NthSpeech(1)) > 0
    /\ SegmentStart(NthSpeech(2)) > Ticks(r_total - sorted_announcements[2][1])

\* C10: when every synthesis call fails the render still returns, every
\* utterance is a 0.5 s placeholder, and for distinct positive remaining
\* times <= total_seconds the duration is total_seconds without "Finished"
\* and total_seconds + 0.5 with it.
C10_AllSynthesisFails ==
    (RenderDone /\ tts_errors = SynthesisCalls) =>
        /\ \A k \in DOMAIN audio_data :
               audio_data[k].kind # "silence"
                   => audio_data[k].ticks = PlaceholderTicks
        /\ Cardinality({k \in DOMAIN audio_data : audio_data[k].kind # "silence"})
               = SynthesisCalls
        /\ DistinctPositive(r_announcements, r_total) =>
               current_position =
                   Ticks(r_total) + (IF include_finished THEN PlaceholderTicks ELSE 0)

\* a render with "Finished" of two announcements in which all three
\* synthesis calls failed
C10_Witness ==
    /\ RenderDone
    /\ include_finished
    /\ Len(sorted_announcements) = 2
    /\ DistinctPositive(r_announcements, r_total)
    /\ tts_errors = 3

EndsWith(text, suffix) ==
    /\ Len(text) >= Len(suffix)
    /\ SubSeq(text, Len(text) - Len(suffix) + 1, Len(text)) = suffix

\* ------------------------------------------- vocabulary: the combined track
FullDone == f_pc = "done"

FullStart(k) == SumTicks(SubSeq(full_audio, 1, k - 1))

\* where the last speech of a list of segments ends, 0 without speech
LastSpeechEnd(segments) ==
    LET S == {k \in DOMAIN segments : segments[k].kind = "speech"}
    IN  IF S = {} THEN 0
        ELSE SumTicks(SubSeq(segments, 1,
                             CHOOSE k \in S : \A j \in S : j <= k))

FinishedSegments(segments) ==
    {k \in DOMAIN segments : segments[k].kind = "finished"}

FinishedCalls == {k \in DOMAIN tts_calls : tts_calls[k].text = W_Finished}

\* C11, as stated: the track is the prep render without "Finished" followed
\* by the main render; the main countdown begins exactly prep_seconds into
\* the track, a main announcement with remaining time r starts at
\* prep_seconds + main_seconds - r, and "Finished" is synthesized exactly
\* once, as the last segment.
C11_MainStartsAtPrepSeconds ==
    FullDone =>
        /\ full_audio = prep_audio \o audio_data
        /\ FinishedSegments(prep_audio) = {}
        /\ SumTicks(prep_audio) = Ticks(prep_seconds)
        /\ \A n \in 1..Len(main_announcements) :
               FullStart(Len(prep_audio) + NthSpeech(n))
                   = Ticks(prep_seconds + main_seconds - main_announcements[n][1])
        /\ FinishedSegments(full_audio) = {Len(full_audio)}
        /\ Cardinality(FinishedCalls) = 1

\* C11, amended: the track is the prep render without "Finished" followed
\* by the main render; the main countdown begins where the prep render
\* ends, which is prep_seconds into the track unless the last prep speech
\* runs past it; a main announcement with remaining time r starts at that
\* point plus max(main_seconds - r, end of the previous main speech), so at
\* prep_seconds + main_seconds - r when no speech before it has overrun;
\* "Finished" is synthesized exactly once, as the last segment.
C11_MainFollowsPrepRender ==
    FullDone =>
        /\ full_audio = prep_audio \o audio_data
        /\ FinishedSegments(prep_audio) = {}
        /\ SumTicks(prep_audio)
               = Max(Ticks(prep_seconds), LastSpeechEnd(prep_audio))
        /\ \A n \in 1..Len(main_announcements) :
               LET start == FullStart(Len(prep_audio) + NthSpeech(n))
                   target == Ticks(main_seconds - main_announcements[n][1])
                   previous_end == IF n = 1 THEN 0 ELSE SegmentEnd(NthSpeech(n - 1))
               IN  /\ start = SumTicks(prep_audio) + Max(target, previous_end)
                   /\ (SumTicks(prep_audio) = Ticks(prep_seconds)
                          /\ previous_end <= target) =>
                          start = Ticks(prep_seconds + main_seconds
                                            - main_announcements[n][1])
        /\ FinishedSegments(full_audio) = {Len(full_audio)}
        /\ Cardinality(FinishedCalls) = 1

\* a finished track whose last prep speech ran past prep_seconds, so that
\* the main countdown begins late
C11_Witness ==
    /\ FullDone
    /\ SumTicks(prep_audio) > Ticks(prep_seconds)
    /\ Len(main_announcements) >= 2
    /\ FullStart(Len(prep_audio) + NthSpeech(1))
           > Ticks(prep_seconds + main_seconds - main_announcements[1][1])

\* ------------------------------------------------- vocabulary: the renderer
OnlyDigits(text) ==
    /\ Len(text) > 0
    /\ \A i \in DOMAIN text : text[i] \in {"0", "1", "2", "3", "4", "5", "6", "7", "8", "9"}

\* at most two characters, digits and blanks only, at least one digit
ShortDigits(text) ==
    /\ Len(text) <= 2
    /\ \E i \in DOMAIN text : text[i] # " "
    /\ \A i \in DOMAIN text :
           text[i] \in {" ", "0", "1", "2", "3", "4", "5", "6", "7", "8", "9"}

\* the decimal text of a number, as a low-verbosity stage announces it
IsLowText(text) == \E n \in 0..MaxFormatSeconds : text = Str(n)

\* a phrase ending in "remaining", as a high-verbosity stage announces it
IsHighText(text) == EndsWith(text, W_remaining)

\* C12: a text is spoken at the countdown rate exactly when it is purely
\* numeric or has at most 2 characters that are digits once blanks are
\* removed, and at the normal rate otherwise; so low-verbosity announcements
\* get the countdown rate, high-verbosity ones and "Finished" the normal one.
C12_RateSelection ==
    \A k \in DOMAIN tts_calls :
        LET text == tts_calls[k].text
            rate == tts_calls[k].rate
        IN  /\ rate \in {tts_rate_normal, tts_rate_countdown}
            /\ (rate = tts_rate_countdown) <=> (OnlyDigits(text) \/ ShortDigits(text))
            /\ IsLowText(text) => rate = tts_rate_countdown
            /\ IsHighText(text) => rate = tts_rate_normal
            /\ (text = W_Finished) => rate = tts_rate_normal

C12_Witness ==
    /\ RenderDone
    /\ include_finished
    /\ Len(tts_calls) = 2
    /\ tts_calls[1].text = <<"1", "0", "0">>
    /\ tts_calls[1].rate = tts_rate_countdown
    /\ tts_calls[2].text = W_Finished
    /\ tts_calls[2].rate = tts_rate_normal

\* C13, as stated: every temporary file the renderer creates is in the
\* temp-file list, also when synthesis fails; cleanup() removes every listed
\* file and empties the list, and a cleanup on an empty list changes nothing.
C13_CleanupRemovesAll ==
    [][/\ \A path \in fs' \ fs : path \in Paths(temp_files')
       /\ (cleanup_calls' # cleanup_calls) =>
              /\ temp_files' = <<>>
              /\ \A path \in Paths(temp_files) : path \notin fs'
              /\ (temp_files = <<>>) => fs' = fs]_vars

\* C13, amended: every temporary file the renderer creates is in the
\* temp-file list, also when synthesis fails; cleanup() removes every listed
\* file except those whose removal raised, removes nothing else, empties the
\* list all the same, and a cleanup on an empty list changes nothing.
C13_CleanupBestEffort ==
    [][/\ \A path \in fs' \ fs : path \in Paths(temp_files')
       /\ (cleanup_calls' # cleanup_calls) =>
              /\ temp_files' = <<>>
              /\ \A path \in Paths(temp_files) :
                     path \in fs' => path \in remove_failed'
              /\ fs' \subseteq fs
              /\ (fs \ fs') \subseteq Paths(temp_files)
              /\ (temp_files = <<>>) => fs' = fs]_vars

\* a cleanup after a failed synthesis removed one file and failed on another
C13_Witness ==
    /\ cleanup_calls = 1
    /\ tts_errors >= 1
    /\ temp_files = <<>>
    /\ remove_failed # {}
    /\ remove_failed \subseteq fs
    /\ \E path \in 1..(next_path - 1) : path \notin fs

\* ------------------------------------------------ vocabulary: time and text
ParseCall == call.fn \in {"parse_time_string", "get_seconds"}

Normalized(text) == Lower(RemoveSpaces(text))

\* a digit directly followed by a unit letter
HasComponent(s) ==
    \E j \in 2..Len(s) : s[j] \in {"h", "m", "s"} /\ s[j - 1] \in DigitSet

\* INT 'u', for the unit letter u
IsComponent(s, unit) ==
    /\ Len(s) >= 2
    /\ s[Len(s)] = unit
    /\ \A i \in 1..(Len(s) - 1) : s[i] \in DigitSet

\* TIME := (INT 'h')? (INT 'm')? (INT 's')? | INT, at least one component
MatchesGrammar(s) ==
    \/ isdigit(s)
    \/ /\ s # <<>>
       /\ \E i \in 0..Len(s), j \in 0..Len(s) :
              /\ i <= j
              /\ (i = 0 \/ IsComponent(SubSeq(s, 1, i), "h"))
              /\ (j = i \/ IsComponent(SubSeq(s, i + 1, j), "m"))
              /\ (j = Len(s) \/ IsComponent(SubSeq(s, j + 1, Len(s)), "s"))

HasDigit(s) == \E i \in DOMAIN s : s[i] \in DigitSet

ComponentValue(n) == IF n < 0 THEN 0 ELSE n
ExpectedSeconds(t) ==
    3600 * ComponentValue(t[1]) + 60 * ComponentValue(t[2]) + ComponentValue(t[3])

IsTimeStringOf(text, t) ==
    text \in {TimeString(t[1], t[2], t[3]), TimeStringSpaced(t[1], t[2], t[3])}

\* MM:SS of a non-negative number of seconds
ExpectedMMSS(n) ==
    LET mm == n \div 60
        ss == n % 60
    IN  (IF mm < 10 THEN <<"0", DigitChars[mm + 1]>> ELSE Str(mm))
            \o <<":", DigitChars[(ss \div 10) + 1], DigitChars[(ss % 10) + 1]>>

Unit(count, singular, plural) ==
    Str(count) \o SP \o (IF count = 1 THEN singular ELSE plural)

\* C14: every valid time string <h>h<m>m<s>s, all-zero ones included, is
\* parsed to 3600*h + 60*m + s without an error and through the unit
\* components; format_time of the result is MM:SS with minutes = result
\* div 60, not wrapped; the integer fallback is taken only when no unit
\* component matched.
C14_ValidStringsRoundTrip ==
    /\ (ParseCall /\ call.arg.type = "str") =>
           /\ \A t \in ComponentTriples :
                  IsTimeStringOf(call.arg.text, t) =>
                      ret.ok /\ ret.val = ExpectedSeconds(t)
           /\ ret.fallback => ~HasComponent(Normalized(call.arg.text))
    /\ (call.fn = "format_time" /\ call.time_str.type = "str") =>
           \A t \in ComponentTriples :
               IsTimeStringOf(call.time_str.text, t) =>
                   ret.val = ExpectedMMSS(ExpectedSeconds(t))

\* C15: parse_time_string raises for every text that, once blanks are
\* removed and letters lowered, does not match the grammar
\* (INT 'h')? (INT 'm')? (INT 's')? | INT; it returns no value for it.
C15_RejectsNonGrammar ==
    (call.fn = "parse_time_string" /\ call.arg.type = "str"
        /\ ~MatchesGrammar(Normalized(call.arg.text))) => ~ret.ok

\* C16: every value parse_time_string returns, for a number or for a text,
\* is a non-negative integer, and a text without a digit raises.
C16_ResultNonNegative ==
    ParseCall =>
        /\ ret.ok => ret.val >= 0
        /\ (call.arg.type = "str" /\ ~HasDigit(call.arg.text)) => ~ret.ok

\* C17, as stated: format_time_announcement renders
\* "M minute(s)[, S second(s)] remaining" from 60 seconds on and
\* "S second(s) remaining" below, and always ends in "remaining".
C17_EndsInRemaining ==
    call.fn = "format_time_announcement" =>
        LET n == call.arg
            m == n \div 60
            s == n % 60
        IN  /\ EndsWith(ret.val, W_remaining)
            /\ ret.val =
                  (IF n >= 60
                   THEN Unit(m, W_minute, W_minutes)
                            \o (IF s = 0 THEN <<>>
                                ELSE <<",", " ">> \o Unit(s, W_second, W_seconds))
                   ELSE Unit(n, W_second, W_seconds))
                      \o SP \o W_remaining

\* C17, amended: format_time_announcement renders "M minute(s)[ S second(s)]"
\* from 60 seconds on and "S second(s)" below, singular exactly for a count
\* of 1, no seconds clause for a remainder of 0, no comma and no "remaining":
\* followed by " remaining" it is the high-verbosity phrase of a stage.
C17_PhraseWithoutRemaining ==
    call.fn = "format_time_announcement" =>
        LET n == call.arg
        IN  /\ ~EndsWith(ret.val, W_remaining)
            /\ \A i \in DOMAIN ret.val : ret.val[i] # ","
            /\ ret.val \o SP \o W_remaining
                   = format_announcement(Stage("any", 0, 1, "high"), n)
            /\ (n = 75) => ret.val = <<"1">> \o SP \o W_minute \o SP
                                        \o <<"1", "5">> \o SP \o W_seconds
            /\ (n = 60) => ret.val = <<"1">> \o SP \o W_minute
            /\ (n = 120) => ret.val = <<"2">> \o SP \o W_minutes
            /\ (n = 1) => ret.val = <<"1">> \o SP \o W_second
            /\ (n = 0) => ret.val = <<"0">> \o SP \o W_seconds

C17_Witness ==
    /\ call.fn = "format_time_announcement"
    /\ call.arg = 61
    /\ ret.val = <<"1">> \o SP \o W_minute \o SP \o <<"1">> \o SP \o W_second

\* C18: Stage.format_announcement(n) is the decimal text of n at verbosity
\* "low"; at "high" it is "<m> minute(s) [<s> second(s)] remaining" from 60
\* on, without the seconds clause when s = 0, and "<n> second(s) remaining"
\* below 60, singular exactly for a count of 1.
C18_FormatAnnouncement ==
    call.fn = "format_announcement" =>
        LET v == call.arg[1]
            n == call.arg[2]
            m == n \div 60
            s == n % 60
        IN  /\ (v = "low") =>
                   /\ isdigit(ret.val)
                   /\ IntOfDigits(ret.val) = n
                   /\ (Len(ret.val) > 1 => ret.val[1] # "0")
            /\ (v = "high" /\ n >= 60 /\ s = 0) =>
                   ret.val = Unit(m, W_minute, W_minutes) \o SP \o W_remaining
            /\ (v = "high" /\ n >= 60 /\ s # 0) =>
                   ret.val = Unit(m, W_minute, W_minutes) \o SP
                                \o Unit(s, W_second, W_seconds) \o SP \o W_remaining
            /\ (v = "high" /\ n < 60) =>
                   ret.val = Unit(n, W_second, W_seconds) \o SP \o W_remaining
            /\ (v = "high" /\ n = 75) =>
                   ret.val = <<"1">> \o SP \o W_minute \o SP \o <<"1", "5">>
                                \o SP \o W_seconds \o SP \o W_remaining
            /\ (v = "high" /\ n = 60) =>
                   ret.val = <<"1">> \o SP \o W_minute \o SP \o W_remaining

C18_Witness ==
    /\ call.fn = "format_announcement"
    /\ call.arg = <<"high", 121>>
    /\ ret.val = <<"2">> \o SP \o W_minutes \o SP \o <<"1">> \o SP \o W_second
                     \o SP \o W_remaining

\* ---------------------------------------------- vocabulary: legacy schedule
LegacyReturned == l_pc = "returned"

\* the value the loop would have tried after the last one it collected
NextAfter(list) ==
    IF list = <<>> THEN shortest_seconds
    ELSE TimesMultiplier(list[1], multiplier)

\* C19: generate_announcement_intervals returns the empty list when
\* total_seconds < shortest; otherwise it returns, strictly descending, the
\* values shortest, int(shortest*multiplier), ... up to the first one that
\* is not < total_seconds, so total_seconds itself is never in the list;
\* (100, "15s", 2) gives [60, 30, 15].
C19_LegacyIntervals ==
    LegacyReturned =>
        /\ (l_total < shortest_seconds) => l_result = <<>>
        /\ (l_total >= shortest_seconds) =>
               /\ \A i \in 1..(Len(l_result) - 1) :
                      /\ l_result[i] > l_result[i + 1]
                      /\ l_result[i] = TimesMultiplier(l_result[i + 1], multiplier)
               /\ (l_result # <<>>) => l_result[Len(l_result)] = shortest_seconds
               /\ \A i \in DOMAIN l_result : l_result[i] < l_total
               /\ NextAfter(l_result) >= l_total
        /\ (l_total = 100 /\ shortest_seconds = 15 /\ multiplier = 4) =>
               l_result = <<60, 30, 15>>

C19_Witness ==
    /\ LegacyReturned
    /\ l_total = 60
    /\ shortest_seconds = 15
    /\ multiplier = 4
    /\ l_result = <<30, 15>>

\* C20: every StageConfig the program builds (default(), from_dict on loaded
\* settings, the configuration screen's get_stage_config) has exactly one
\* stage whose duration_threshold is 0.
C20_ExactlyOneFallback ==
    (built_by \in {"default", "from_dict", "get_stage_config"}) =>
        OneFallback(stages)

\* ------------------------------------ vocabulary: saving and loading stages
Count(seq, x) == Cardinality({i \in DOMAIN seq : seq[i] = x})

\* the same elements, each as many times
SameElements(a, b) ==
    /\ Len(a) = Len(b)
    /\ \A x \in Range(a) \cup Range(b) : Count(a, x) = Count(b, x)

DescendingThresholds(self_stages) ==
    \A i, j \in DOMAIN self_stages :
        i < j => self_stages[i].duration_threshold >= self_stages[j].duration_threshold

\* C21: whatever the order of the stages handed to the constructor, the
\* constructed configuration holds the same stages ordered by
\* duration_threshold descending; from_dict(c.to_dict()) holds the same stages
\* in the same order as c, and to_dict of that equals c.to_dict().
C21_SortedAndRoundTrip ==
    /\ (built_by \in {"default", "from_dict", "get_stage_config"}) =>
            /\ DescendingThresholds(stages)
            /\ SameElements(stages, built_input)
    /\ (c_pc \in {"reloaded", "resaved"}) => reloaded = stages
    /\ (c_pc = "resaved") => resaved = saved

\* a configuration built from stages given in another order, with two stages
\* of one threshold, saved, loaded and saved again
C21_Witness ==
    /\ c_pc = "resaved"
    /\ built_input # stages
    /\ \E i, j \in DOMAIN stages :
            i < j /\ stages[i].duration_threshold = stages[j].duration_threshold

\* ------------------------------------------- vocabulary: the settings file
\* a step in which a call of load_settings ends
LoadSettingsEnds == s_pc = "idle" /\ s_pc' # "idle"

\* C22: load_settings never raises and returns a dictionary with all six
\* keys: for a missing file the defaults, which it also writes to the file;
\* for a stored object the stored values of the keys present and the defaults
\* of the absent ones; for any other file content the full defaults.
C22_LoadSettingsTotal ==
    [][LoadSettingsEnds =>
        /\ s_pc' = "returned"
        /\ SettingKeys \subseteq DOMAIN s_ret'
        /\ (settings_file.kind = "missing") =>
                /\ s_ret' = _get_default_settings
                /\ settings_file' = ObjectFile(_get_default_settings)
        /\ (settings_file.kind = "object") =>
                \A key \in SettingKeys :
                    s_ret'[key] = IF key \in DOMAIN settings_file.obj
                                  THEN settings_file.obj[key]
                                  ELSE DefaultValue(key)
        /\ (settings_file.kind \notin {"missing", "object"}) =>
                s_ret' = _get_default_settings]_vars

\* ------------------------------------------- TimerWindow and AudioTimer
\* seconds and the half-second ticks of the track, in tenths of a second
TenthsPerSecond == 10
TenthsPerTick == 5

\* root.after(100, self.update_display)
UpdatePeriod == 1

\* how long the blocking PlaySound call takes
TrackLength(track) == TenthsPerTick * SumTicks(track)

\* what the duration entries of the configuration screen can hand to on_start
ScreenDurations ==
    {get_duration_string(m, Str(n)) : m \in {<<"0">>, <<"x">>}, n \in 0..MaxTimerSeconds}

\* settings.get("audio_offset", 0)
AudioOffsets == {0, MaxOffset}

\* synthesis fails, or gives a second of speech
TimerOutcomes == {o \in SpeechOutcomes : ~o.ok \/ o.ticks = 2}

\* the AudioTimer fields update_display reads and writes
Self == [timer_running |-> timer_running, start_time |-> start_time,
         in_prep_phase |-> in_prep_phase]

\* the transition as written: self.start_time = time.time()
SwitchStart(self, t) == t

\* a completion test that is met a second early
CompletesEarly(remaining, in_prep) == remaining <= TenthsPerSecond /\ ~in_prep

\* if remaining <= 0 and not self.in_prep_phase
Completes(remaining, in_prep) == remaining <= 0 /\ ~in_prep

\* update_display at time t: the fields after it, what it put on the label
\* (labelled), whether it called on_complete and whether it scheduled itself
update_display(self, t) ==
    LET elapsed == t - self.start_time
        prep_remaining == Max(0, TenthsPerSecond * prep_seconds - elapsed)
        switched == self.in_prep_phase /\ prep_remaining <= 0
        in_prep == self.in_prep_phase /\ ~switched
        start == IF switched THEN SwitchStart(self, t) ELSE self.start_time
        remaining ==
            IF self.in_prep_phase
            THEN IF switched THEN TenthsPerSecond * main_seconds ELSE prep_remaining
            ELSE Max(0, TenthsPerSecond * main_seconds - elapsed)
        completed == Completes(remaining, in_prep)
    IN  IF ~self.timer_running \/ self.start_time = -1
        THEN [timer_running |-> self.timer_running, start_time |-> self.start_time,
              in_prep_phase |-> self.in_prep_phase, switched |-> FALSE,
              completed |-> FALSE, labelled |-> FALSE, remaining |-> 0,
              scheduled |-> FALSE]
        ELSE [timer_running |-> ~completed, start_time |-> start,
              in_prep_phase |-> in_prep, switched |-> switched,
              completed |-> completed, labelled |-> ~completed,
              remaining |-> remaining, scheduled |-> ~completed]

renderLocals == <<r_pc, r_total, r_announcements, include_finished,
                  sorted_announcements, idx, current_position, audio_data,
                  tts_errors, tts_calls, next_path>>

\* TimerWindow.on_timer_complete: the FINISHED screen, then
\* audio_generator.cleanup()
on_timer_complete ==
    /\ t_pc' = "finished"
    /\ complete_calls' = complete_calls + 1
    /\ \E failing \in SUBSET (Paths(temp_files) \cap fs) :
           /\ fs' = fs \ (Paths(temp_files) \ failing)
           /\ remove_failed' = failing
    /\ temp_files' = AfterCleanup(temp_files)
    /\ cleanup_calls' = cleanup_calls + 1

\* a call of update_display by AudioTimer self at the present time
RunUpdateDisplay(self) ==
    LET u == update_display(self, now)
    IN  /\ timer_running' = u.timer_running
        /\ start_time' = u.start_time
        /\ in_prep_phase' = u.in_prep_phase
        /\ switches' = IF u.switched THEN switches + 1 ELSE switches
        /\ label' = IF u.labelled THEN u.remaining ELSE label
        /\ label_at' = IF u.labelled THEN now ELSE label_at
        /\ due' = IF u.scheduled THEN now + UpdatePeriod ELSE -1
        /\ IF u.completed
           THEN on_timer_complete
           ELSE /\ t_pc' = IF t_pc = "finished" THEN "finished" ELSE "running"
                /\ UNCHANGED <<complete_calls, fs, temp_files, cleanupVars>>

\* AudioTimer._start_visual_timer, whose last statement calls update_display
RunStartVisualTimer ==
    /\ visual_start' = now
    /\ RunUpdateDisplay([timer_running |-> TRUE, start_time |-> now,
                         in_prep_phase |-> TRUE])

\* TimerWindow.start_timer, run by the main loop once the generating thread
\* has returned the track: a new AudioTimer, then AudioTimer.start()
start_timer(offset) ==
    /\ f_pc = "done"
    /\ t_pc = "idle"
    /\ audio_offset' = offset
    /\ player_pc' = "started"
    /\ playing' = TRUE
    /\ IF offset > 0
       THEN /\ t_pc' = "waiting"
            /\ due' = now + offset
            /\ UNCHANGED <<timer_running, start_time, in_prep_phase, label,
                           label_at, visual_start, switches, complete_calls>>
            /\ UNCHANGED <<fs, temp_files, cleanupVars>>
       ELSE RunStartVisualTimer
    /\ UNCHANGED <<now, late, play_end, renderLocals>>
    /\ UNCHANGED <<schedVars, textVars, legacyVars, configVars, fullVars, settingsVars, pollVars, walkVars>>

\* the callback of root.after(int(audio_offset * 1000), ...)
StartVisualTimerFires ==
    /\ t_pc = "waiting"
    /\ now >= due
    /\ RunStartVisualTimer
    /\ UNCHANGED <<now, late, audio_offset, renderLocals, playerVars>>
    /\ UNCHANGED <<schedVars, textVars, legacyVars, configVars, fullVars, settingsVars, pollVars, walkVars>>

\* the callback of root.after(100, self.update_display)
UpdateDisplayFires ==
    /\ t_pc \in {"running", "finished"}
    /\ due # -1
    /\ now >= due
    /\ RunUpdateDisplay(Self)
    /\ UNCHANGED <<now, late, audio_offset, visual_start, renderLocals, playerVars>>
    /\ UNCHANGED <<schedVars, textVars, legacyVars, configVars, fullVars, settingsVars, pollVars, walkVars>>

\* _play_worker reaches its playback call: a backend plays the file, which
\* blocks for the length of the track, or neither backend works
PlayBegins(works) ==
    /\ player_pc = "started"
    /\ works => output_path \in fs
    /\ IF works
       THEN /\ player_pc' = "playing"
            /\ play_end' = now + TrackLength(full_audio)
            /\ UNCHANGED playing
       ELSE /\ player_pc' = "done"
            /\ playing' = FALSE
            /\ UNCHANGED play_end
    /\ UNCHANGED <<schedVars, renderVars, textVars, legacyVars, configVars, cleanupVars, fullVars>>
    /\ UNCHANGED <<settingsVars, timerVars, pollVars, walkVars>>

\* the playback call returns: self._playing = False
PlayEnds ==
    /\ player_pc = "playing"
    /\ now >= play_end
    /\ player_pc' = "done"
    /\ playing' = FALSE
    /\ UNCHANGED play_end
    /\ UNCHANGED <<schedVars, renderVars, textVars, legacyVars, configVars, cleanupVars, fullVars>>
    /\ UNCHANGED <<settingsVars, timerVars, pollVars, walkVars>>

\* a callback of the main loop or a step of the playback thread could run
Overdue ==
    \/ due # -1 /\ now >= due
    \/ player_pc = "started"
    \/ player_pc = "playing" /\ now >= play_end

\* a tenth of a second passes; what is overdue is left waiting for at most
\* MaxLate tenths in a run
Tick ==
    /\ t_pc \in {"waiting", "running"} \/ player_pc = "playing"
    /\ Overdue => late < MaxLate
    /\ now' = now + 1
    /\ late' = IF Overdue THEN late + 1 ELSE late
    /\ UNCHANGED <<t_pc, audio_offset, timer_running, start_time, in_prep_phase,
                   label, label_at, visual_start, due, switches, complete_calls>>
    /\ UNCHANGED <<schedVars, renderVars, textVars, legacyVars, configVars, cleanupVars, fullVars>>
    /\ UNCHANGED <<settingsVars, playerVars, pollVars, walkVars>>

InitTimer == InitDefault

\* on_start starts the generating thread, which calls generate_full_audio
ThreadStarts ==
    \E prep_duration \in ScreenDurations, main_duration \in ScreenDurations :
        generate_full_audio(prep_duration, main_duration)

\* the further steps of the generating thread
ThreadRuns ==
    \/ \E outcome \in TimerOutcomes : RenderAnnouncement(outcome)
    \/ \E outcome \in TimerOutcomes : RenderReturn(outcome)
    \/ FullStartMain
    \/ FullFinish

MainLoop ==
    \/ \E offset \in AudioOffsets : start_timer(offset)
    \/ StartVisualTimerFires
    \/ UpdateDisplayFires

PlayThread ==
    \/ \E works \in BOOLEAN : PlayBegins(works)
    \/ PlayEnds

NextTimer == ThreadStarts \/ ThreadRuns \/ MainLoop \/ PlayThread \/ Tick

SpecTimer == InitTimer /\ [][NextTimer]_vars

\* once started the generating thread runs on, the main loop runs every due
\* callback, the playback thread runs and time passes
SpecTimerFair ==
    /\ SpecTimer
    /\ WF_vars(ThreadRuns)
    /\ WF_vars(MainLoop)
    /\ WF_vars(PlayThread)
    /\ WF_vars(Tick)

\* ------------------------------------------ vocabulary: the visual countdown
PrepTenths == TenthsPerSecond * prep_seconds
MainTenths == TenthsPerSecond * main_seconds

\* the label has been written
Labelled == label # -1

\* time elapsed from the visual start to the latest label update
ElapsedAtLabel == label_at - visual_start

\* C23: at every display update the remaining time put on the label is
\* prep_seconds minus the time elapsed since the visual start in the prep
\* phase, and prep_seconds + main_seconds minus that elapsed time in the main
\* phase, clamped at 0, whenever the 100 ms callbacks run.
C23_DisplayInSync ==
    Labelled =>
        label = Max(0, (IF in_prep_phase THEN PrepTenths ELSE PrepTenths + MainTenths)
                       - ElapsedAtLabel)

\* C24: a run started with START completes whatever durations the
\* configuration screen produced and even if every synthesis and playback
\* call fails: once the generating thread has been started, the track is
\* generated, the visual countdown is started and on_timer_complete is
\* eventually called, which shows the FINISHED screen.
C24_RunCompletes ==
    (f_pc # "idle") ~>
        (f_pc = "done" /\ visual_start # -1 /\ t_pc = "finished" /\ complete_calls = 1)

\* C30: the track file is never deleted while it is still being played: in
\* every interleaving of the playback thread and the display loop,
\* AudioGenerator.cleanup runs only after the player has finished playing the
\* track.
C30_CleanupAfterPlayback ==
    /\ (cleanup_calls > 0) => player_pc = "done"
    /\ (player_pc = "playing") => output_path \in fs

\* ---------------------------------------------- vocabulary: timer phases
\* a step in which update_display switches from the prep to the main timer
SwitchStep == switches' = switches + 1

\* a step in which on_complete is called
CompleteStep == complete_calls' = complete_calls + 1

\* C29: an AudioTimer only moves forward through its phases: it starts in the
\* prep phase, switches to the main phase once, when the prep time has
\* elapsed, and never returns; on_complete is called once, in the main phase
\* when the main time has elapsed, and from then on timer_running is False
\* and no display update is scheduled; the remaining time on the label is
\* never negative.
C29_PhasesForward ==
    /\ [](/\ switches <= 1
          /\ complete_calls <= 1
          /\ (visual_start # -1 /\ switches = 0) => in_prep_phase
          /\ (switches = 1) => ~in_prep_phase
          /\ (complete_calls = 1) =>
                 switches = 1 /\ ~timer_running /\ due = -1 /\ t_pc = "finished"
          /\ (t_pc = "finished") => complete_calls = 1
          /\ Labelled => label >= 0)
    /\ [][/\ (visual_start # -1 /\ ~in_prep_phase) => ~in_prep_phase'
          /\ SwitchStep => (in_prep_phase /\ now - start_time >= PrepTenths)
          /\ CompleteStep =>
                 (~in_prep_phase' /\ now - start_time' >= MainTenths)
          /\ (complete_calls = 1) =>
                 UNCHANGED <<label, label_at, due, timer_running>>]_vars

\* a run that has switched to the main phase and completed
C29_Witness ==
    /\ t_pc = "finished"
    /\ switches = 1
    /\ complete_calls = 1
    /\ late > 0

\* ------------------------------------------------- the polling timer loops
\* speak_text blocks for no time (every TTS method failed) or for this long
SpeakTenths == {0, MaxSpeakTenths}

\* time.sleep(0.1)
SleepTenths == 1

\* the offsets of the package timer: none, or the default of one second
PollOffsets == {0, TenthsPerSecond}

\* remaining_seconds = max(0, total_seconds - elapsed_time), in tenths
PollRemaining == Max(0, TenthsPerSecond * p_total - p_elapsed)

\* a test that forgets the flag
ShouldSpeakAgain(flag, remaining, trigger) == remaining <= trigger

\* not announced[interval] and remaining_seconds <= trigger_time
ShouldSpeak(flag, remaining, trigger) == ~flag /\ remaining <= trigger

\* the thresholds the for loop of one iteration speaks, in its order
DueNow ==
    SelectSeq(p_thresholds,
              LAMBDA i : ShouldSpeak(announced[i], PollRemaining,
                                     TenthsPerSecond * i + p_offset))

Utterance(kind, seconds) ==
    [kind |-> kind, seconds |-> seconds, remaining |-> PollRemaining]

\* src/src/__main__.py timer(), from the return of
\* generate_announcement_intervals to the loop (lines 43-59)
PackageTimerStart(offset) ==
    /\ p_pc = "idle"
    /\ l_pc = "returned"
    /\ p_pc' = "loop"
    /\ p_variant' = "package"
    /\ p_total' = l_total
    /\ p_shortest' = shortest_seconds
    /\ p_thresholds' = l_result
    /\ p_offset' = offset
    /\ announced' = [i \in Range(l_result) |-> FALSE]
    /\ short_timer_announced' = FALSE
    /\ p_elapsed' = 0
    /\ p_spoken' = <<>>
    /\ UNCHANGED <<final_countdown_from, final_countdown_started, last_beep_number>>
    /\ UNCHANGED <<schedVars, renderVars, textVars, legacyVars, configVars, cleanupVars, fullVars>>
    /\ UNCHANGED <<settingsVars, timerVars, playerVars, walkVars>>

\* src/timer.py timer(), up to the loop (lines 349-355): the thresholds are
\* the keys of parsed_announcements
ScriptTimerStart(total, thresholds, countdown_from) ==
    /\ p_pc = "idle"
    /\ l_pc = "idle"
    /\ p_pc' = "loop"
    /\ p_variant' = "script"
    /\ p_total' = total
    /\ p_thresholds' = thresholds
    /\ p_offset' = 0
    /\ announced' = [i \in Range(thresholds) |-> FALSE]
    /\ final_countdown_from' = countdown_from
    /\ final_countdown_started' = FALSE
    /\ last_beep_number' = -1
    /\ p_elapsed' = 0
    /\ p_spoken' = <<>>
    /\ UNCHANGED <<p_shortest, short_timer_announced>>
    /\ UNCHANGED <<schedVars, renderVars, textVars, legacyVars, configVars, cleanupVars, fullVars>>
    /\ UNCHANGED <<settingsVars, timerVars, playerVars, walkVars>>

\* one iteration of the while loop of the package timer that does not break
\* (lines 62-88); every speak_text of it takes speak tenths
PackageIteration(speak) ==
    /\ p_pc = "loop"
    /\ p_variant = "package"
    /\ PollRemaining > 0
    /\ IF p_total < p_shortest /\ ~short_timer_announced
       THEN /\ IF p_elapsed >= p_offset
               THEN /\ p_spoken' = Append(p_spoken, Utterance("total", p_total))
                    /\ short_timer_announced' = TRUE
                    /\ p_elapsed' = p_elapsed + speak + SleepTenths
               ELSE /\ p_elapsed' = p_elapsed + SleepTenths
                    /\ UNCHANGED <<p_spoken, short_timer_announced>>
            /\ UNCHANGED announced
       ELSE /\ p_spoken' = p_spoken \o
                   [k \in DOMAIN DueNow |-> Utterance("interval", DueNow[k])]
            /\ announced' = [i \in DOMAIN announced |->
                                announced[i] \/ i \in Range(DueNow)]
            /\ p_elapsed' = p_elapsed + speak * Len(DueNow) + SleepTenths
            /\ UNCHANGED short_timer_announced
    /\ UNCHANGED <<p_pc, p_variant, p_total, p_thresholds, p_offset, p_shortest,
                   final_countdown_from, final_countdown_started, last_beep_number>>
    /\ UNCHANGED <<schedVars, renderVars, textVars, legacyVars, configVars, cleanupVars, fullVars>>
    /\ UNCHANGED <<settingsVars, timerVars, playerVars, walkVars>>

\* one iteration of the while loop of the script timer that does not break
\* (lines 362-400)
ScriptIteration(speak) ==
    LET started == final_countdown_started
                       \/ PollRemaining <= TenthsPerSecond * final_countdown_from
        countdown_number == (PollRemaining \div TenthsPerSecond) + 1
        beeps == /\ countdown_number <= final_countdown_from
                 /\ countdown_number > 0
                 /\ countdown_number # last_beep_number
    IN  /\ p_pc = "loop"
        /\ p_variant = "script"
        /\ PollRemaining > 0
        /\ final_countdown_started' = started
        /\ IF started
           THEN /\ p_spoken' = IF beeps
                               THEN Append(p_spoken, Utterance("beep", countdown_number))
                               ELSE p_spoken
                /\ last_beep_number' = IF beeps THEN countdown_number
                                       ELSE last_beep_number
                /\ p_elapsed' = p_elapsed + (IF beeps THEN speak ELSE 0) + SleepTenths
                /\ UNCHANGED announced
           ELSE /\ p_spoken' = p_spoken \o
                       [k \in DOMAIN DueNow |-> Utterance("interval", DueNow[k])]
                /\ announced' = [i \in DOMAIN announced |->
                                    announced[i] \/ i \in Range(DueNow)]
                /\ p_elapsed' = p_elapsed + speak * Len(DueNow) + SleepTenths
                /\ UNCHANGED last_beep_number
        /\ UNCHANGED <<p_pc, p_variant, p_total, p_thresholds, p_offset, p_shortest,
                       short_timer_announced, final_countdown_from>>
        /\ UNCHANGED <<schedVars, renderVars, textVars, legacyVars, configVars, cleanupVars, fullVars>>
        /\ UNCHANGED <<settingsVars, timerVars, playerVars, walkVars>>

\* the iteration that breaks, and speak_text("Finished") after the loop
PollFinish ==
    /\ p_pc = "loop"
    /\ PollRemaining <= 0
    /\ p_spoken' = Append(p_spoken, Utterance("Finished", 0))
    /\ p_pc' = "done"
    /\ UNCHANGED <<p_variant, p_total, p_thresholds, p_offset, p_shortest,
                   announced, short_timer_announced, final_countdown_from,
                   final_countdown_started, last_beep_number, p_elapsed>>
    /\ UNCHANGED <<schedVars, renderVars, textVars, legacyVars, configVars, cleanupVars, fullVars>>
    /\ UNCHANGED <<settingsVars, timerVars, playerVars, walkVars>>

\* the announcement times a caller of the script timer may give: lists
\* without repetition, as they are the keys of a dictionary
ScriptThresholds ==
    {l \in ListsUpTo(1..MaxPollTotal, 2) : \A i, j \in DOMAIN l : i # j => l[i] # l[j]}

NextPoll ==
    \/ /\ p_pc = "idle"
       /\ \E total \in 0..MaxPollTotal, shortest_interval \in ShortestIntervals,
             mult \in Multipliers :
              generate_announcement_intervals(total, shortest_interval, mult)
    \/ LegacyLoop
    \/ LegacyReturn
    \/ \E offset \in PollOffsets : PackageTimerStart(offset)
    \/ \E total \in 1..MaxPollTotal, thresholds \in ScriptThresholds,
          countdown_from \in 0..1 :
           ScriptTimerStart(total, thresholds, countdown_from)
    \/ \E speak \in SpeakTenths : PackageIteration(speak)
    \/ \E speak \in SpeakTenths : ScriptIteration(speak)
    \/ PollFinish

SpecPoll == InitDefault /\ [][NextPoll]_vars

\* ------------------------------------------ vocabulary: the polling loops
Utterances(kind) == {k \in DOMAIN p_spoken : p_spoken[k].kind = kind}

\* C25: in a polling timer loop a flag of the announced dictionary only goes
\* from False to True; every scheduled announcement is spoken at most once in
\* a run, and only in an iteration whose remaining time is at most its
\* trigger time (interval + offset); "Finished" is spoken exactly once, after
\* the loop.
C25_AnnouncedOnce ==
    /\ [](/\ \A j, k \in Utterances("interval") :
                 p_spoken[j].seconds = p_spoken[k].seconds => j = k
          /\ \A k \in Utterances("interval") :
                 /\ p_spoken[k].seconds \in Range(p_thresholds)
                 /\ announced[p_spoken[k].seconds]
                 /\ p_spoken[k].remaining
                        <= TenthsPerSecond * p_spoken[k].seconds + p_offset
          /\ (p_pc = "loop") => Utterances("Finished") = {}
          /\ (p_pc = "done") => Utterances("Finished") = {Len(p_spoken)})
    /\ [][(p_pc = "loop") =>
            /\ DOMAIN announced' = DOMAIN announced
            /\ \A i \in DOMAIN announced : announced[i] => announced'[i]]_vars

\* a finished run in which two announcements were spoken in different
\* iterations
C25_Witness ==
    /\ p_pc = "done"
    /\ \E j, k \in Utterances("interval") :
           p_spoken[j].remaining # p_spoken[k].remaining

\* ---------------------------------------- StageConfig.get_stage_for_time
\* the first stage in the list's order whose threshold is at least
\* remaining_seconds, else the last stage of the list
RECURSIVE FirstCovering(_, _, _)
FirstCovering(self_stages, remaining_seconds, i) ==
    IF i > Len(self_stages) THEN self_stages[Len(self_stages)]
    ELSE IF remaining_seconds <= self_stages[i].duration_threshold
    THEN self_stages[i]
    ELSE FirstCovering(self_stages, remaining_seconds, i + 1)

get_stage_for_time(self_stages, remaining_seconds) ==
    FirstCovering(self_stages, remaining_seconds, 1)

CallGetStageForTime(remaining_seconds) ==
    /\ call' = [fn |-> "get_stage_for_time", arg |-> IntArg(remaining_seconds)]
    /\ ret' = Return(get_stage_for_time(stages, remaining_seconds))
    /\ UNCHANGED <<schedVars, renderVars, legacyVars, configVars, cleanupVars, fullVars, extraVars>>

\* configurations of the fallback and two stages with distinct positive
\* thresholds, in either order
StageForConfigs ==
    { cfg \in { <<Stage("countdown", t1, 1, "low"),
                  Stage("one_minute", t2, i2, "high"),
                  Stage("everything", 0, i3, "high")>> :
                  t1 \in 1..MaxThreshold, t2 \in 1..MaxThreshold,
                  i2 \in 1..MaxInterval, i3 \in 1..MaxInterval } :
        cfg[1].duration_threshold # cfg[2].duration_threshold }

InitStageFor ==
    /\ \E cfg \in StageForConfigs \cup {StageConfigDefault} :
           stages = StageConfigInit(cfg)
    /\ InitCall
    /\ InitIdleRender
    /\ InitAux

\* a schedule is generated, then the stage of one time is asked for
NextStageFor ==
    \/ /\ pc = "idle"
       /\ \E total \in 0..MaxTotal : generate_announcements(total)
    \/ /\ pc = "returned"
       /\ call = NoCall
       /\ \E remaining_seconds \in 0..(MaxTotal + 1) :
              CallGetStageForTime(remaining_seconds)

SpecStageFor == InitStageFor /\ [][NextStageFor]_vars

\* ----------------------------------- vocabulary: the stage of a time
\* the stages other than the fallback whose threshold is at least r
CoveringStages(S, r) ==
    {i \in DOMAIN S : S[i].duration_threshold # 0 /\ S[i].duration_threshold >= r}

\* the positions of the stages whose walk put time t into the schedule
FormattingStages(S, total, t) ==
    {i \in DOMAIN S : t \in Times(Contribution(S, total, i))}

\* C26: get_stage_for_time(r) returns the stage other than the fallback with
\* the smallest duration_threshold that is at least r, or the fallback when r
\* exceeds every threshold; for every time t of a schedule it is the stage
\* whose format generate_announcements used for t.
C26_StageForTime ==
    (call.fn = "get_stage_for_time") =>
        LET r == call.arg.number
            covering == CoveringStages(stages, r)
        IN  /\ IF covering = {}
               THEN ret.val.duration_threshold = 0
               ELSE \E i \in covering :
                        /\ ret.val = stages[i]
                        /\ \A j \in covering :
                               stages[i].duration_threshold
                                   <= stages[j].duration_threshold
            /\ (r \in Times(announcements)) =>
                   \E i \in FormattingStages(stages, total_seconds, r) :
                       ret.val = stages[i]

\* ------------------------------- generate_announcements, statement by statement
\* a walk whose current stays where it is
WalkDecrementNone(current, interval) == current

\* current -= stage.announcement_interval (line 184)
WalkDecrement(current, interval) == current - interval

\* the for loop takes the stage at position i (lines 154-166)
EnterStage(i, total) ==
    /\ w_stage' = i
    /\ w_current' = StageStart(stages[i], total)
    /\ w_end' = StageEnd(stages, stages[i])
    /\ w_iterations' = 0

\* the call up to the first test of the while loop (lines 150-166); with no
\* stages the empty list is returned
WalkCall(total) ==
    /\ w_pc = "idle"
    /\ w_total' = total
    /\ w_announcements' = <<>>
    /\ w_processed_times' = NewProcessedTimes
    /\ IF stages = <<>>
       THEN /\ w_pc' = "returned"
            /\ UNCHANGED <<w_stage, w_current, w_end, w_iterations>>
       ELSE /\ w_pc' = "walk"
            /\ EnterStage(1, total)
    /\ UNCHANGED <<schedVars, renderVars, textVars, legacyVars, configVars, cleanupVars, fullVars>>
    /\ UNCHANGED <<settingsVars, timerVars, playerVars, pollVars>>

\* one iteration of the while loop (lines 166-184)
WalkStep ==
    LET stage == stages[w_stage]
        announcement_time ==
            (w_current \div stage.announcement_interval) * stage.announcement_interval
        keep == KeepCandidate(announcement_time, w_end, w_total, w_processed_times)
    IN  /\ w_pc = "walk"
        /\ w_current > w_end
        /\ w_announcements' =
               IF keep
               THEN Append(w_announcements,
                           <<announcement_time,
                             format_announcement(stage, announcement_time)>>)
               ELSE w_announcements
        /\ w_processed_times' =
               IF keep THEN w_processed_times \cup {announcement_time}
               ELSE w_processed_times
        /\ w_current' = WalkDecrement(w_current, stage.announcement_interval)
        /\ w_iterations' = w_iterations + 1
        /\ UNCHANGED <<w_pc, w_total, w_stage, w_end>>
        /\ UNCHANGED <<schedVars, renderVars, textVars, legacyVars, configVars, cleanupVars, fullVars>>
        /\ UNCHANGED <<settingsVars, timerVars, playerVars, pollVars>>

\* the while loop is left: the next stage is taken, or after the last one the
\* list is sorted and returned (lines 186-188)
WalkLeave ==
    /\ w_pc = "walk"
    /\ ~(w_current > w_end)
    /\ IF w_stage < Len(stages)
       THEN /\ EnterStage(w_stage + 1, w_total)
            /\ UNCHANGED <<w_pc, w_announcements>>
       ELSE /\ w_announcements' =
                   SortedDesc(w_announcements, TimeKeys(w_announcements))
            /\ w_pc' = "returned"
            /\ UNCHANGED <<w_stage, w_current, w_end, w_iterations>>
    /\ UNCHANGED <<w_total, w_processed_times>>
    /\ UNCHANGED <<schedVars, renderVars, textVars, legacyVars, configVars, cleanupVars, fullVars>>
    /\ UNCHANGED <<settingsVars, timerVars, playerVars, pollVars>>

\* configurations of three stages with any thresholds and positive intervals
WalkConfigs ==
    { <<Stage("countdown", t1, i1, "low"),
        Stage("one_minute", t2, 1, "high"),
        Stage("everything", 0, i3, "high")>> :
        t1 \in 0..MaxThreshold, t2 \in 0..MaxThreshold,
        i1 \in 1..MaxInterval, i3 \in 1..MaxInterval }

InitWalk ==
    /\ \E cfg \in WalkConfigs \cup {<<>>} : stages = StageConfigInit(cfg)
    /\ InitCall
    /\ InitIdleRender
    /\ InitAux

NextWalk ==
    \/ \E total \in 0..MaxTotal : WalkCall(total)
    \/ WalkStep
    \/ WalkLeave

SpecWalk == InitWalk /\ [][NextWalk]_vars

\* ------------------------------------- vocabulary: the walk of a stage
\* a step that is an iteration of the while loop
WalkIteration == w_pc = "walk" /\ w_iterations' = w_iterations + 1

\* where the walk of the present stage started
WalkStart == StageStart(stages[w_stage], w_total)

\* C27: generate_announcements terminates for every total_seconds >= 0 and
\* every configuration whose stages all have a positive announcement_interval:
\* every iteration of a stage's while loop lowers current by the stage's
\* interval and is made only while current > end, so a stage's loop makes at
\* most start - end iterations, after which the next stage is taken or the
\* call returns.
C27_WalkTerminates ==
    /\ []((w_pc = "walk") =>
            /\ w_current = WalkStart
                    - w_iterations * stages[w_stage].announcement_interval
            /\ w_iterations <= Max(0, WalkStart - w_end))
    /\ [][WalkIteration =>
            /\ w_current > w_end
            /\ w_current' = w_current - stages[w_stage].announcement_interval
            /\ w_current' < w_current]_vars

\* a call that returned after a stage's loop ran more than once
C27_Witness ==
    /\ w_pc = "returned"
    /\ w_iterations > 1
    /\ w_announcements # <<>>

\* ------------------------------------- vocabulary: the legacy loop
\* a step that is an iteration of the while loop of
\* generate_announcement_intervals
LegacyIteration == l_pc = "loop" /\ Len(intervals') = Len(intervals) + 1

\* the arguments the claim speaks of: a shortest interval of at least 0 and a
\* multiplier of at least 1 (two halves)
LegacyArgumentsInRange == shortest_seconds >= 0 /\ multiplier >= 2

\* C28: generate_announcement_intervals terminates for every total_seconds >=
\* 0, every shortest interval >= 0 and every multiplier >= 1: every iteration
\* of its loop raises current, so that after at most total_seconds iterations
\* current has reached total_seconds and the loop is left.
C28_LegacyTerminates ==
    /\ []((l_pc = "loop" /\ LegacyArgumentsInRange) => Len(intervals) <= l_total)
    /\ [][(LegacyIteration /\ LegacyArgumentsInRange) => l_current' > l_current]_vars

============================================================================
